---------------------------- MODULE Spec2Model ----------------------------
(***************************************************************************)
(* A model of the arbitrage engine of hikaru-print: the cycle enumerator   *)
(* (config.rs, construct_cycles), the price cache with its pairing logic   *)
(* (price.rs, PoolPrice / TokenPrice), the optimal-size solver and the     *)
(* direct simulation (printer.rs, get_best_gamble_money and                *)
(* compute_potential), the recompute scheduler (printer.rs, Printer::run)  *)
(* with its subscription tasks, and the construction and submission of a   *)
(* bundle (printer.rs, execute_path, and config.rs, Pool::swap).           *)
(*                                                                         *)
(* Indices are those of the code: pools, currencies and cycles are         *)
(* numbered from 0, a direction is 0 or 1 and the other leg is 1 - dir.    *)
(* A path is a sequence of <<pool, direction>> pairs.                      *)
(***************************************************************************)
EXTENDS Integers, Sequences, FiniteSets, TLC

(***************************************************************************)
(* Bounds of the model.                                                    *)
(***************************************************************************)
\* the drawn pool configurations have at most MaxPools pools
MaxPools == 4
\* the drawn max_cycle_length is at most MaxCycleLen
MaxCycleLen == 4

\* a sequence of update events applied to one PoolPrice has at most MaxHist events
MaxHist == 6

\* the pools change on chain at most MaxChanges times in all
MaxChanges == 2

VARIABLES
    \* ---- construct_cycles, run on a drawn configuration ----
    cc_start,       \* config.start_currency
    cc_max,         \* config.max_cycle_length
    cc_pools,       \* pools: [0 .. n-1 -> Pool]
    cc_i,           \* the loop variable _i of the outer loop
    cc_tmp,         \* tmp: the frontier
    cc_results,     \* results
    \* ---- the price cache ----
    pool_prices,    \* pool_prices: [pool -> PoolPrice]
    price_slot,     \* per pool and leg, the slot of the notification the cached
                    \* amount came from (response.context, which run drops)
    applied,        \* the legs of the update events applied to pool 0 so far
    \* ---- the chain and the feed ----
    chain,          \* per pool, the number of on-chain changes so far
    notified,       \* per pool and leg, the last change the subscription task
                    \* of that reserve account has sent
    chan,           \* the channel account_sender -> account_receiver
    stream,         \* per pool and subscribed account, the state of client_sub:
                    \* "open", "ended" (next( ) yields None) or "failed"
                    \* (next( ) yielded an Err, the task has panicked)
    \* ---- Printer::run ----
    pc,             \* "drain": in the try_recv loop;  "recv": blocked in recv;
                    \* "exited": after std::process::exit;  "panicked"
    cycle_cooldown,
    cycle_gain,
    cycle_money,
    cycle_needs_update,
    executed,       \* the calls of execute_path of the latest evaluation pass
    last_event,     \* the event handled last, <<>> before the first
    since_exec,     \* per cycle, the passes since its last call of
                    \* execute_path, counted up to config.cooldown;  -1
                    \* before the first call
    last_gap,       \* per cycle, the passes from its last but one call of
                    \* execute_path to its last, counted up to
                    \* config.cooldown;  0 before the second call
    since_reset,    \* per cycle, the calls of execute_path since
                    \* "cycle_cooldown[ i ] = config.cooldown" last ran
    \* ---- Config ----
    minimum_gain,   \* config.minimum_gain, a u128: hi * 2^64 + lo
    \* ---- Printer ----
    money,          \* Printer.money
    \* ---- AmmInstruction (raydium.rs) ----
    amm,            \* an instruction, the buffer pack made of it and what
                    \* unpack made of the buffer;  <<>> while not in use
    \* ---- StablePrinter (stable.rs) ----
    stable          \* the StablePrinter and the wallet it reads;  <<>> while
                    \* not in use

ccVars == <<cc_start, cc_max, cc_pools, cc_i, cc_tmp, cc_results>>
priceVars == <<pool_prices, price_slot, applied>>
feedVars == <<chain, notified, chan, stream>>
runVars == <<pc, cycle_cooldown, cycle_gain, cycle_money, cycle_needs_update,
             executed, last_event, since_exec, last_gap, since_reset>>

cfgVars == <<minimum_gain, money>>

vars == <<ccVars, priceVars, feedVars, runVars, cfgVars, amm, stable>>

(***************************************************************************)
(* Graph entities (config.rs).                                             *)
(***************************************************************************)
\* Token: the currency index, and whether extra_account (the account Raydium
\* uses for serum) is Some
Token(c) == [currency_idx |-> c, extra_account |-> FALSE]

\* a pool whose tokens have extra_account as given
WithExtraAccounts(pool, exa, exb) ==
    [pool EXCEPT !.tokens[1].extra_account = exa, !.tokens[2].extra_account = exb]

\* Pool::Swap / Pool::Raydium with its two token bindings
\* Fees of the curve library: the two fee rates the engine reads
Fees(tn, td, on, od) ==
    [trade_fee_numerator |-> tn, trade_fee_denominator |-> td,
     owner_trade_fee_numerator |-> on, owner_trade_fee_denominator |-> od]

\* The fee schedule of the modelled pools.  The code's schedules
\* (DEFAULT_ORCA_FEES, ...) have denominators of 10^4 and 10^5, whose products
\* leave the integers TLC computes with; the modelled pools charge no fee.
NoFees == Fees(0, 1, 0, 1)

SwapPool(c0, c1, appr) ==
    [kind |-> "Swap", tokens |-> <<Token(c0), Token(c1)>>, needs_approve |-> appr,
     fees |-> NoFees]

RaydiumPool(c0, c1) ==
    [kind |-> "Raydium", tokens |-> <<Token(c0), Token(c1)>>, needs_approve |-> FALSE,
     fees |-> NoFees]

\* Pool::get_currency( index ): tokens[ index ], index 0 or 1
get_currency(pool, index) == pool.tokens[index + 1]

\* Pool::needs_approval
needs_approval(pool) == IF pool.kind = "Swap" THEN pool.needs_approve ELSE FALSE

NumPools(pools) == Cardinality(DOMAIN pools)

(***************************************************************************)
(* construct_cycles (config.rs).                                           *)
(***************************************************************************)
\* LegOrder with the inner loop "for w in 0 ..= 1" cut down to w = 0
LegOrder_DirectionZeroOnly(pools) == [k \in 1 .. NumPools(pools) |-> <<k - 1, 0>>]

\* the pairs ( p, w ) in the order of the loops "for p in 0 .. pools.len( )",
\* "for w in 0 ..= 1"
LegOrder(pools) == [k \in 1 .. 2 * NumPools(pools) |-> <<(k - 1) \div 2, (k - 1) % 2>>]

\* the input and output currency of leg <<p, w>>
LegIn(pools, leg) == get_currency(pools[leg[1]], leg[2]).currency_idx
LegOut(pools, leg) == get_currency(pools[leg[1]], 1 - leg[2]).currency_idx

\* the pool indices of a path
PathPools(path) == {path[k][1] : k \in 1 .. Len(path)}

\* the first loop: every leg whose input currency is start, as a one-leg path
InitialTmp(start, pools) ==
    LET IsStart(leg) == LegIn(pools, leg) = start
        legs == SelectSeq(LegOrder(pools), IsStart)
    IN  [k \in 1 .. Len(legs) |->
            [needs_approval |-> needs_approval(pools[legs[k][1]]), path |-> <<legs[k]>>]]

\* Extends without the test that the pool is not on the path yet
Extends_AllowsRepeat(pools, c, leg) ==
    LegIn(pools, leg) = LegOut(pools, c.path[Len(c.path)])

\* a leg extends path c: its pool is not on the path yet and its input currency
\* is the output currency of the last leg
Extends(pools, c, leg) ==
    /\ leg[1] \notin PathPools(c.path)
    /\ LegIn(pools, leg) = LegOut(pools, c.path[Len(c.path)])

\* ExtendBy with the flag of the pushed pool alone, the n of the path dropped
ExtendBy_LastPoolOnly(pools, c, leg) ==
    [needs_approval |-> needs_approval(pools[leg[1]]), path |-> Append(c.path, leg)]

\* "let nn = *n || pools[ p ].needs_approval( )" and the path with ( p, w )
\* pushed
ExtendBy(pools, c, leg) ==
    [needs_approval |-> c.needs_approval \/ needs_approval(pools[leg[1]]),
     path |-> Append(c.path, leg)]

\* the extensions of c pushed to results: the new leg's output is start
Closed(start, pools, c) ==
    LET Closes(leg) == Extends(pools, c, leg) /\ LegOut(pools, leg) = start
        legs == SelectSeq(LegOrder(pools), Closes)
    IN  [k \in 1 .. Len(legs) |-> ExtendBy(pools, c, legs[k])]

\* Open without the "continue" after results.push: a closed extension is
\* pushed to tmp2 as well
Open_KeepsClosed(start, pools, c) ==
    LET Opens(leg) == Extends(pools, c, leg)
        legs == SelectSeq(LegOrder(pools), Opens)
    IN  [k \in 1 .. Len(legs) |-> ExtendBy(pools, c, legs[k])]

\* the extensions of c pushed to tmp2
Open(start, pools, c) ==
    LET Opens(leg) == Extends(pools, c, leg) /\ LegOut(pools, leg) # start
        legs == SelectSeq(LegOrder(pools), Opens)
    IN  [k \in 1 .. Len(legs) |-> ExtendBy(pools, c, legs[k])]

RECURSIVE ClosedAll(_, _, _, _)
ClosedAll(start, pools, tmp, k) ==
    IF k > Len(tmp) THEN <<>>
    ELSE Closed(start, pools, tmp[k]) \o ClosedAll(start, pools, tmp, k + 1)

RECURSIVE OpenAll(_, _, _, _)
OpenAll(start, pools, tmp, k) ==
    IF k > Len(tmp) THEN <<>>
    ELSE Open(start, pools, tmp[k]) \o OpenAll(start, pools, tmp, k + 1)

\* one iteration of "for _i in 1 .. config.max_cycle_length"
ExtendStep(start, pools, st) ==
    [tmp |-> OpenAll(start, pools, st.tmp, 1),
     results |-> st.results \o ClosedAll(start, pools, st.tmp, 1)]

RECURSIVE CyclesLoop(_, _, _, _, _)
CyclesLoop(start, pools, max, i, st) ==
    IF i >= max THEN st.results
    ELSE CyclesLoop(start, pools, max, i + 1, ExtendStep(start, pools, st))

construct_cycles(start, pools, max) ==
    CyclesLoop(start, pools, max, 1, [tmp |-> InitialTmp(start, pools), results |-> <<>>])

(***************************************************************************)
(* The configuration and the pools the engine runs on.                     *)
(***************************************************************************)
\* Config: the fields the engine reads.  Rates (f64 in the code) are
\* fractions num / den.
config ==
    [start_currency |-> 0,
     max_cycle_length |-> 3,
     cooldown |-> 2,
     minimum_money |-> 1,
     minimum_gain |-> 1,
     safety_percentage |-> [num |-> 1, den |-> 2],
     slippage |-> [num |-> 0, den |-> 1],
     greed |-> [num |-> 1, den |-> 1],
     extra_budget |-> 0]

\* Currency: decimals of currency c
currencies == [c \in {0, 1, 2} |-> [decimals |-> 2]]

\* pools: A = base <-> X, B = X <-> base, a Raydium pool X <-> base whose
\* tokens are configured without extra_account, and a pool X <-> Y that no
\* cycle from base goes through, Y being the currency of no other pool
pools ==
    [p \in {0, 1, 2, 3} |->
        CASE p = 0 -> SwapPool(0, 1, FALSE)
          [] p = 1 -> SwapPool(1, 0, FALSE)
          [] p = 2 -> RaydiumPool(1, 0)
          [] p = 3 -> SwapPool(1, 2, FALSE)]

PoolIds == DOMAIN pools

\* main: cycles = construct_cycles( &config, &pools )
cycles == construct_cycles(config.start_currency, pools, config.max_cycle_length)

CycleIds == 0 .. Len(cycles) - 1

\* self.cycles[ i ].path
CyclePath(i) == cycles[i + 1].path

(***************************************************************************)
(* The price cache (price.rs) and the pairing logic of Printer::run.       *)
(***************************************************************************)
\* the reserve of leg tkn of pool p after the pool's n-th on-chain change
ChainReserve(p, tkn, n) == IF tkn = 0 THEN 100 + 20 * n ELSE 200 - 30 * n

\* TokenPrice: token_amount = ( ui amount, decimals ) is kept as the raw amount
\* ui * 10^decimals together with the decimals
TokenPrice(raw, decs) == [raw |-> raw, decs |-> decs]

\* TokenPrice::init: the balance of the reserve account
TokenPriceInit(p, tkn) ==
    TokenPrice(ChainReserve(p, tkn, 0), currencies[get_currency(pools[p], tkn).currency_idx].decimals)

\* PoolPrice::init
PoolPriceInit(p) ==
    [sanity |-> TRUE,
     token_price |-> <<TokenPriceInit(p, 0), TokenPriceInit(p, 1)>>,
     token_updated |-> <<FALSE, FALSE>>]

\* TokenPrice::update that keeps the cached amount
TokenPriceUpdate_KeepsAmount(tp, account_data) == tp

\* TokenPrice::update: a payload that decodes sets the amount and keeps the
\* decimals, one that does not decode changes nothing
TokenPriceUpdate(tp, account_data) ==
    IF account_data.decodes THEN TokenPrice(account_data.amount, tp.decs) ELSE tp

\* PairLegs with the flag of the updated leg tested in place of the other leg's
PairLegs_TestsOwnFlag(pp, tkn, account_data) ==
    LET upd == [pp EXCEPT !.token_price[tkn + 1] = TokenPriceUpdate(@, account_data)]
    IN  IF upd.token_updated[tkn + 1]
        THEN [upd EXCEPT !.token_updated = <<FALSE, FALSE>>, !.sanity = TRUE]
        ELSE [upd EXCEPT !.token_updated[tkn + 1] = TRUE, !.sanity = FALSE]

\* PairLegs whose pairing branch clears the flag of the updated leg alone: the
\* assignment "token_updated[ 1 - tkn ] = false" dropped
PairLegs_KeepsOtherFlag(pp, tkn, account_data) ==
    LET upd == [pp EXCEPT !.token_price[tkn + 1] = TokenPriceUpdate(@, account_data)]
    IN  IF upd.token_updated[(1 - tkn) + 1]
        THEN [upd EXCEPT !.token_updated[tkn + 1] = FALSE, !.sanity = TRUE]
        ELSE [upd EXCEPT !.token_updated[tkn + 1] = TRUE, !.sanity = FALSE]

\* Printer::run, the arm Pool::Swap of both receive sites: update the leg, then
\* pair it with the other leg
PairLegs(pp, tkn, account_data) ==
    LET upd == [pp EXCEPT !.token_price[tkn + 1] = TokenPriceUpdate(@, account_data)]
    IN  IF upd.token_updated[(1 - tkn) + 1]
        THEN [upd EXCEPT !.token_updated = <<FALSE, FALSE>>, !.sanity = TRUE]
        ELSE [upd EXCEPT !.token_updated[tkn + 1] = TRUE, !.sanity = FALSE]

\* UpdatePoolPrice that writes the amount of the event to both legs
UpdatePoolPrice_BothLegs(pool, pp, tkn, account_data) ==
    [PairLegs(pp, tkn, account_data)
        EXCEPT !.token_price[(1 - tkn) + 1] = TokenPriceUpdate(@, account_data)]

\* Printer::run, "match self.pools[ pool ]" of both receive sites
UpdatePoolPrice(pool, pp, tkn, account_data) ==
    IF pool.kind = "Swap" THEN PairLegs(pp, tkn, account_data) ELSE pp

PriceInit ==
    /\ pool_prices = [p \in PoolIds |-> PoolPriceInit(p)]
    /\ price_slot = [p \in PoolIds |-> <<0, 0>>]
    /\ applied = <<>>

(***************************************************************************)
(* The curve model: Pool::predict_swap and Pool::fees (config.rs) over the *)
(* constant-product curve of the curve library, and PoolPrice::swap and    *)
(* PoolPrice::token_amount (price.rs).  An absent result (None) of the     *)
(* library is the record with ok = FALSE.                                  *)
(***************************************************************************)
\* POWERS_OF_TEN[ n ]
RECURSIVE POWERS_OF_TEN(_)
POWERS_OF_TEN(n) == IF n = 0 THEN 1 ELSE 10 * POWERS_OF_TEN(n - 1)

Max(a, b) == IF a >= b THEN a ELSE b

\* the library's fee of one rate on an amount: at least one token when the
\* rate is not zero
CalculateFee(amount, numerator, denominator) ==
    IF numerator = 0 \/ amount = 0 THEN 0
    ELSE LET fee == (amount * numerator) \div denominator
         IN  IF fee = 0 THEN 1 ELSE fee

\* the largest integer TLC computes with
MaxInt == 2147483647

\* The code computes in u128 and f64, TLC in 32 bits: a product a * b that
\* leaves them is never formed, and its quotient and remainder by c are
\* computed from those of a * ( b div 4 ), digit being b mod 4.
\* MulDivMod(a, b, c) is << ( a * b ) div c, ( a * b ) mod c >>, for
\* 0 < c and 7 * c <= MaxInt.
RECURSIVE MulDivMod(_, _, _)
MulDivModStep(a, digit, c, rest) ==
    <<4 * rest[1] + digit * (a \div c) + (4 * rest[2] + digit * (a % c)) \div c,
      (4 * rest[2] + digit * (a % c)) % c>>

MulDivMod(a, b, c) ==
    IF b = 0 \/ a <= MaxInt \div b THEN <<(a * b) \div c, (a * b) % c>>
    ELSE MulDivModStep(a, b % 4, c, MulDivMod(a, b \div 4, c))

\* the outcome of the library's ceiling division with the first quotient and
\* remainder at hand
CeilDivOf(x, y, rhs, qr) ==
    IF qr[1] = 0 THEN [ok |-> FALSE, quotient |-> 0, rhs |-> 0]
    ELSE IF qr[2] = 0 THEN [ok |-> TRUE, quotient |-> qr[1], rhs |-> rhs]
    ELSE [ok |-> TRUE, quotient |-> qr[1] + 1,
          rhs |-> IF MulDivMod(x, y, qr[1] + 1)[2] > 0
                  THEN MulDivMod(x, y, qr[1] + 1)[1] + 1
                  ELSE MulDivMod(x, y, qr[1] + 1)[1]]

\* the library's ceiling division of lhs = x * y by rhs, which also lowers the
\* divisor to the least one that gives the same quotient
CeilDiv(x, y, rhs) ==
    IF rhs = 0 THEN [ok |-> FALSE, quotient |-> 0, rhs |-> 0]
    ELSE CeilDivOf(x, y, rhs, MulDivMod(x, y, rhs))

\* a curve that reports one more traded than it was offered
CurveSwap_TradesMore(fees, source_amount, swap_source_amount, swap_destination_amount) ==
    [ok |-> TRUE,
     source_amount_swapped |-> source_amount + 1,
     destination_amount_swapped |-> swap_destination_amount \div 2]

\* the library's constant-product swap of source_amount, fees taken first
CurveSwap(fees, source_amount, swap_source_amount, swap_destination_amount) ==
    LET total_fees ==
            CalculateFee(source_amount, fees.trade_fee_numerator, fees.trade_fee_denominator)
            + CalculateFee(source_amount, fees.owner_trade_fee_numerator,
                           fees.owner_trade_fee_denominator)
        less_fees == source_amount - total_fees
        \* invariant = swap_source_amount * swap_destination_amount
        div == CeilDiv(swap_source_amount, swap_destination_amount,
                       swap_source_amount + less_fees)
        none == [ok |-> FALSE, source_amount_swapped |-> 0, destination_amount_swapped |-> 0]
    IN  IF less_fees < 0 \/ ~div.ok THEN none
        ELSE IF swap_destination_amount - div.quotient = 0 THEN none
        ELSE [ok |-> TRUE,
              source_amount_swapped |-> (div.rhs - swap_source_amount) + total_fees,
              destination_amount_swapped |-> swap_destination_amount - div.quotient]

\* Pool::predict_swap: ( amount_swapped, source_amount ), ( 0, 0 ) on None
predict_swap(pool, toys_in, swap_source_amount, swap_destination_amount) ==
    LET r == CurveSwap(pool.fees, toys_in, swap_source_amount, swap_destination_amount)
    IN  IF r.ok THEN <<r.destination_amount_swapped, r.source_amount_swapped>> ELSE <<0, 0>>

\* Pool::fees: 1 - approximate_fees( fees ), as a fraction
fees(pool) ==
    LET f == pool.fees
        den == f.trade_fee_denominator * f.owner_trade_fee_denominator
    IN  [num |-> den - f.trade_fee_numerator * f.owner_trade_fee_denominator
                     - f.owner_trade_fee_numerator * f.trade_fee_denominator,
         den |-> den]

\* PoolPrice::swap: both reserves at the larger of the two decimals
PoolPriceSwap(pp, toys_in, direction, pool_info) ==
    LET a == pp.token_price[direction + 1]
        b == pp.token_price[(1 - direction) + 1]
        decs == Max(a.decs, b.decs)
    IN  predict_swap(pool_info, toys_in,
                     a.raw * POWERS_OF_TEN(decs - a.decs),
                     b.raw * POWERS_OF_TEN(decs - b.decs))

\* PoolPrice::token_amount: val * 10^decs
token_amount(pp, direction) == pp.token_price[direction + 1].raw

(***************************************************************************)
(* The direct simulation and the optimal-size solver (printer.rs).         *)
(***************************************************************************)
\* ( x as f64 * ( 1.0 - config.slippage ) ) as u128
AfterSlippage(x) ==
    (x * (config.slippage.den - config.slippage.num)) \div config.slippage.den

\* the loop of compute_potential from leg i on; 0 as soon as a pool is not sane
RECURSIVE PotentialFrom(_, _, _, _, _)
PotentialFrom(path, prices, i, toys_in, decs) ==
    IF i > Len(path) THEN toys_in
    ELSE LET curr_pool == path[i][1]
             dir == path[i][2]
             pool == pools[curr_pool]
             curr_a == currencies[get_currency(pool, dir).currency_idx]
             curr_b == currencies[get_currency(pool, 1 - dir).currency_idx]
             ndecs == curr_b.decimals
             decs1 == IF decs = 0 THEN curr_a.decimals ELSE decs
             toys_out == AfterSlippage(PoolPriceSwap(prices[curr_pool], toys_in, dir, pool)[1])
             next_in == IF decs1 # 0 /\ decs1 # ndecs
                        THEN (toys_out * POWERS_OF_TEN(ndecs)) \div POWERS_OF_TEN(decs1)
                        ELSE toys_out
         IN  IF ~prices[curr_pool].sanity THEN 0
             ELSE PotentialFrom(path, prices, i + 1, next_in, ndecs)

\* compute_potential with the sanity test made at the first leg only
compute_potential_FirstLegOnly(path, prices, gamble_money) ==
    IF path # <<>> /\ ~prices[path[1][1]].sanity THEN 0
    ELSE PotentialFrom(path, [p \in DOMAIN prices |-> [prices[p] EXCEPT !.sanity = TRUE]],
                       1, gamble_money, 0)

\* Printer::compute_potential
compute_potential(path, prices, gamble_money) ==
    PotentialFrom(path, prices, 1, gamble_money, 0)

\* the wallet balance comm.get_current_balance returns in Printer::init
get_current_balance == 100

\* ( wallet as f64 * config.safety_percentage ) as u64
GambleMoney(wallet) ==
    (wallet * config.safety_percentage.num) \div config.safety_percentage.den

\* Printer::get_gamble_money
get_gamble_money == GambleMoney(money)

\* the largest s with s * s <= x * y, by Newton's iteration from an s at or
\* above it: next is the mean of s and ( x * y ) div s, and s is the root as
\* soon as next is not below it
RECURSIVE IsqrtFrom(_, _, _)
IsqrtStep(x, y, s, next) == IF next >= s THEN s ELSE IsqrtFrom(x, y, next)

IsqrtFrom(x, y, s) == IsqrtStep(x, y, s, (s + MulDivMod(x, y, s)[1]) \div 2)

\* f64::sqrt of x * y, rounded down
Isqrt(x, y) == IF x = 0 \/ y = 0 THEN 0 ELSE IsqrtFrom(x, y, Max(x, y))

\* ( 1 - slippage )^k as a fraction
RECURSIVE SlippagePower(_)
SlippagePower(k) ==
    IF k = 0 THEN [num |-> 1, den |-> 1]
    ELSE LET r == SlippagePower(k - 1)
         IN  [num |-> r.num * (config.slippage.den - config.slippage.num),
              den |-> r.den * config.slippage.den]

\* the loop of get_best_gamble_money from leg i on.  alpha = an / d,
\* gamma = gn / d and beta are exact; f is fees * ( 1 - slippage )^i
RECURSIVE Coefficients(_, _, _, _)
Coefficients(path, prices, i, acc) ==
    IF i > Len(path) THEN acc
    ELSE LET pp == prices[path[i][1]]
             a == token_amount(pp, path[i][2])
             b == token_amount(pp, 1 - path[i][2])
             sl == SlippagePower(i)
             fn == fees(pools[path[i][1]]).num * sl.num
             fd == fees(pools[path[i][1]]).den * sl.den
         IN  Coefficients(path, prices, i + 1,
                 [gn |-> acc.gn * a * fd + acc.an * fn,
                  an |-> acc.an * b * fn,
                  d |-> acc.d * fd,
                  beta |-> acc.beta * a])

\* ( gamble_money_f.floor( ) * config.greed ) as i64, rounded towards zero,
\* for a config.greed of greed
TimesGreed(greed, x) ==
    IF x >= 0 THEN (x * greed.num) \div greed.den
    ELSE 0 - (((0 - x) * greed.num) \div greed.den)

\* ( ( alpha * beta ).sqrt( ) - beta ) / gamma, rounded down, times greed, for
\* alpha = c.an / c.d and gamma = c.gn / c.d: the quotient is
\* ( sqrt( an * beta * d ) - beta * d ) / gn, and its floor is the largest x
\* with gn * x + beta * d <= sqrt( an * beta * d ).  A gamma of 0 gives an
\* infinite or undefined quotient, which the cast below turns into a value
\* outside [ minimum_money, max_gamble_money ] as long as minimum_money > 0.
Optimum(greed, c) ==
    IF c.gn = 0 THEN 0
    ELSE TimesGreed(greed, (Isqrt(c.an * c.d, c.beta) - c.beta * c.d) \div c.gn)

\* "if gamble_money < config.minimum_money as i64 || gamble_money as u64 >
\* max_gamble_money { max_gamble_money } else { gamble_money as u64 }"
\* Clamp without the test against max_gamble_money
Clamp_NoCeiling(minimum_money, gamble_money, max_gamble_money) ==
    IF gamble_money < minimum_money THEN max_gamble_money ELSE gamble_money

\* Clamp with a size below minimum_money raised to minimum_money
Clamp_ToFloor(minimum_money, gamble_money, max_gamble_money) ==
    IF gamble_money < minimum_money THEN minimum_money
    ELSE IF gamble_money > max_gamble_money THEN max_gamble_money
    ELSE gamble_money

\* for a config.minimum_money of minimum_money
Clamp(minimum_money, gamble_money, max_gamble_money) ==
    IF gamble_money < minimum_money \/ gamble_money > max_gamble_money
    THEN max_gamble_money
    ELSE gamble_money

\* the closed-form optimum of get_best_gamble_money before the test against
\* minimum_money and max_gamble_money: "gamble_money"
GambleMoneyOptimum(greed, path, prices) ==
    Optimum(greed, Coefficients(path, prices, 1, [gn |-> 0, an |-> 1, d |-> 1, beta |-> 1]))

\* Printer::get_best_gamble_money under a config that has the given
\* minimum_money and greed and a wallet that gives max_gamble_money
BestGambleMoney(minimum_money, greed, max_gamble_money, path, prices) ==
    Clamp(minimum_money, GambleMoneyOptimum(greed, path, prices), max_gamble_money)

\* Printer::get_best_gamble_money under config
get_best_gamble_money(path, prices) ==
    BestGambleMoney(config.minimum_money, config.greed, get_gamble_money, path, prices)

(***************************************************************************)
(* execute_path (printer.rs) and Pool::swap (config.rs): the bundle of one  *)
(* call and what becomes of it.                                            *)
(***************************************************************************)
\* an instruction of a bundle: a compute-budget instruction ( "budget" ), an
\* spl_token approve ( "approve", amount_in being the amount approved and
\* signer its delegate ) or a swap of a pool ( "swap", signer being the
\* account that authorizes the transfer )
Instruction(kind, pool, direction, amount_in, minimum_amount_out, signer) ==
    [kind |-> kind, pool |-> pool, direction |-> direction, amount_in |-> amount_in,
     minimum_amount_out |-> minimum_amount_out, signer |-> signer]

\* Pool::swap with the approve instruction pushed after the swap instruction
PoolSwap_ApprovesAfter(pool, curr_pool, instructions, toys_in, toys_out, direction) ==
    [ok |-> TRUE,
     instructions |->
         instructions
         \o <<Instruction("swap", curr_pool, direction, toys_in, toys_out, "wallet")>>
         \o (IF pool.needs_approve
             THEN <<Instruction("approve", curr_pool, direction, toys_in, 0, "extra_signer")>>
             ELSE <<>>)]

\* Pool::swap: the instructions after the call and the value returned.  A Swap
\* pool pushes an approve for extra_payer if needs_approve, then its swap;  a
\* Raydium pool returns false, pushing nothing, if a token has no
\* extra_account, and pushes its swap otherwise
PoolSwap(pool, curr_pool, instructions, toys_in, toys_out, direction) ==
    IF pool.kind = "Swap"
    THEN [ok |-> TRUE,
          instructions |->
              instructions
              \o (IF pool.needs_approve
                  THEN <<Instruction("approve", curr_pool, direction, toys_in, 0,
                                     "extra_signer")>>
                  ELSE <<>>)
              \o <<Instruction("swap", curr_pool, direction, toys_in, toys_out,
                               IF pool.needs_approve THEN "extra_signer" ELSE "wallet")>>]
    ELSE IF ~get_currency(pool, direction).extra_account
            \/ ~get_currency(pool, 1 - direction).extra_account
    THEN [ok |-> FALSE, instructions |-> instructions]
    ELSE [ok |-> TRUE,
          instructions |->
              Append(instructions,
                     Instruction("swap", curr_pool, direction, toys_in, toys_out, "wallet"))]

\* "out" with the size asked of every leg
MinimumOut_EveryLeg(path, i, gamble_money) == gamble_money

\* "let out = if i + 1 < path.len( ) { 0 } else { gamble_money as u128 }", for
\* the i-th leg counted from 1
MinimumOut(path, i, gamble_money) == IF i < Len(path) THEN 0 ELSE gamble_money

\* the loop of execute_path from leg i on, ps being self.pools: ok is false if
\* Pool::swap returned false ( "return None" );  the loop is left by "break"
\* at a leg whose quote would trade more than it is given
RECURSIVE ExecuteFrom(_, _, _, _, _, _, _, _)
RECURSIVE ExecuteNext(_, _, _, _, _, _, _, _)
ExecuteFrom(ps, path, prices, gamble_money, i, toys_in, decs, instructions) ==
    IF i > Len(path) THEN [ok |-> TRUE, instructions |-> instructions]
    ELSE LET curr_pool == path[i][1]
             dir == path[i][2]
             pool == ps[curr_pool]
             curr_a == currencies[get_currency(pool, dir).currency_idx]
             curr_b == currencies[get_currency(pool, 1 - dir).currency_idx]
             ndecs == curr_b.decimals
             decs1 == IF decs = 0 THEN curr_a.decimals ELSE decs
             quote == PoolPriceSwap(prices[curr_pool], toys_in, dir, pool)
             toys_out == AfterSlippage(quote[1])
             nout == IF decs1 # 0 /\ decs1 # ndecs
                     THEN (toys_out * POWERS_OF_TEN(ndecs)) \div POWERS_OF_TEN(decs1)
                     ELSE toys_out
         IN  IF quote[2] > toys_in THEN [ok |-> TRUE, instructions |-> instructions]
             ELSE ExecuteNext(ps, path, prices, gamble_money, i, nout, ndecs,
                              PoolSwap(pool, curr_pool, instructions, toys_in,
                                       MinimumOut(path, i, gamble_money), dir))

\* the rest of the body for leg i, swapped being what Pool::swap gave
ExecuteNext(ps, path, prices, gamble_money, i, nout, ndecs, swapped) ==
    IF ~swapped.ok THEN swapped
    ELSE ExecuteFrom(ps, path, prices, gamble_money, i + 1, nout, ndecs,
                     swapped.instructions)

\* the instructions before the loop: a compute-budget instruction if
\* config.extra_budget > 0
BudgetInstructions(extra_budget) ==
    IF extra_budget > 0 THEN <<Instruction("budget", -1, 0, extra_budget, 0, "wallet")>>
    ELSE <<>>

\* "let signers = if cycle.needs_approval { .. }"
Signers(cycle) ==
    IF cycle.needs_approval THEN <<"wallet", "extra_signer">> ELSE <<"wallet">>

\* the results of Communication::send_transaction
SinkResults == {"Ok", "Err"}

\* the end of execute_path, built being what the loop gave: nothing is sent
\* and None is returned if Pool::swap returned false;  otherwise one bundle
\* goes to send_transaction, whose Ok( signature ) becomes Some( signature )
\* and whose Err becomes None
Submit(built, cycle, sink) ==
    IF ~built.ok THEN [result |-> "None", abandoned |-> TRUE, submitted |-> <<>>]
    ELSE [result |-> IF sink = "Ok" THEN "Some" ELSE "None",
          abandoned |-> FALSE,
          submitted |-> <<[instructions |-> built.instructions,
                           signers |-> Signers(cycle)]>>]

\* Printer::execute_path on the pools ps: what was handed to send_transaction
\* and the value returned
ExecutePath(ps, extra_budget, cycle, prices, gamble_money, sink) ==
    Submit(ExecuteFrom(ps, cycle.path, prices, gamble_money, 1, gamble_money, 0,
                       BudgetInstructions(extra_budget)),
           cycle, sink)

\* Printer::execute_path: the instructions it has built when it returns
execute_path(path, prices, gamble_money) ==
    ExecuteFrom(pools, path, prices, gamble_money, 1, gamble_money, 0,
                BudgetInstructions(config.extra_budget)).instructions

(***************************************************************************)
(* The chain, the subscription tasks and the channel.                      *)
(***************************************************************************)
\* the payloads of the update events: an account holding amount
Payload(amount) == [decodes |-> TRUE, amount |-> amount]

\* a payload account_data.decode( ) yields None for
Malformed == [decodes |-> FALSE, amount |-> 0]

RECURSIVE SumOver(_, _)
SumOver(f, S) ==
    IF S = {} THEN 0
    ELSE LET x == CHOOSE y \in S : TRUE IN f[x] + SumOver(f, S \ {x})

\* the accounts of a pool Printer::run subscribes to, by the index sent with
\* their events: the two reserve accounts, and for a Raydium pool its open
\* orders ( 3 ) and its serum market ( 4 )
Subscriptions(pool) == IF pool.kind = "Swap" THEN {0, 1} ELSE {0, 1, 3, 4}

FeedInit ==
    /\ chain = [p \in PoolIds |-> 0]
    /\ notified = [p \in PoolIds |-> <<0, 0>>]
    /\ chan = <<>>
    /\ stream = [p \in PoolIds |-> [a \in Subscriptions(pools[p]) |-> "open"]]

\* a trade on pool p changes both of its reserve accounts at once
ChainChange(p) ==
    /\ SumOver(chain, PoolIds) < MaxChanges
    /\ chain' = [chain EXCEPT ![p] = @ + 1]
    /\ UNCHANGED <<notified, chan, stream>>
    /\ UNCHANGED <<ccVars, priceVars, runVars, cfgVars, amm, stable>>

\* the subscription task of reserve account tkn of pool p: client_sub.next( )
\* yields the account after its next change, which the task sends as
\* ( idx, i, response.value ) with the context of the response
Notify(p, tkn) ==
    /\ stream[p][tkn] = "open"
    /\ notified[p][tkn + 1] < chain[p]
    /\ LET n == notified[p][tkn + 1] + 1
       IN  /\ notified' = [notified EXCEPT ![p][tkn + 1] = n]
           /\ chan' = Append(chan, [pool |-> p, tkn |-> tkn, context |-> n,
                                    result |-> Payload(ChainReserve(p, tkn, n))])
    /\ UNCHANGED <<chain, stream>>
    /\ UNCHANGED <<ccVars, priceVars, runVars, cfgVars, amm, stable>>

(***************************************************************************)
(* Printer::run: the two receive sites and the evaluation pass.            *)
(***************************************************************************)
\* pool_update with every pool marking every cycle
pool_update_AllCycles(p) == [i \in CycleIds |-> TRUE]

\* pool_update[ p ]: the cycles whose path holds pool p
pool_update(p) == [i \in CycleIds |-> p \in PathPools(CyclePath(i))]

RunInit ==
    /\ pc = "drain"
    /\ cycle_cooldown = [i \in CycleIds |-> config.cooldown]
    /\ cycle_gain = [i \in CycleIds |-> 0]
    /\ cycle_money = [i \in CycleIds |-> 0]
    /\ cycle_needs_update = [i \in CycleIds |-> TRUE]
    /\ executed = <<>>
    /\ last_event = <<>>
    /\ since_exec = [i \in CycleIds |-> -1]
    /\ last_gap = [i \in CycleIds |-> 0]
    /\ since_reset = [i \in CycleIds |-> 0]

\* the body of both receive sites on Ok( ( pool, tkn, result ) )
HandleEvent(ev) ==
    /\ cycle_needs_update' =
           [i \in CycleIds |-> cycle_needs_update[i] \/ pool_update(ev.pool)[i]]
    /\ pool_prices' = [pool_prices EXCEPT
                          ![ev.pool] = UpdatePoolPrice(pools[ev.pool], @, ev.tkn, ev.result)]
    /\ price_slot' = IF pools[ev.pool].kind = "Swap" /\ ev.result.decodes
                     THEN [price_slot EXCEPT ![ev.pool][ev.tkn + 1] = ev.context]
                     ELSE price_slot
    /\ last_event' = <<ev>>
    /\ chan' = Tail(chan)
    /\ UNCHANGED <<chain, notified, applied, stream>>
    /\ UNCHANGED <<cycle_cooldown, cycle_gain, cycle_money, executed, since_exec,
                   last_gap, since_reset>>
    /\ UNCHANGED <<ccVars, cfgVars, amm, stable>>

\* account_receiver.try_recv( ) yields an event
DrainEvent ==
    /\ pc = "drain"
    /\ chan # <<>>
    /\ HandleEvent(Head(chan))
    /\ pc' = "drain"

\* account_receiver.recv( ) yields an event
RecvEvent ==
    /\ pc = "recv"
    /\ chan # <<>>
    /\ HandleEvent(Head(chan))
    /\ pc' = "drain"

\* a u128 of value hi * 2^64 + lo, with lo < 2^64
U128(hi, lo) == [hi |-> hi, lo |-> lo]

\* "x as u64" of a u128: the low 64 bits
AsU64(x) == x.lo

\* "rs > opt_gamble_money as u128 + config.minimum_gain" for rs and
\* opt_gamble_money below 2^64 and a sum below 2^128
ExceedsU128(rs, opt_gamble_money, gain) ==
    gain.hi = 0 /\ rs > opt_gamble_money + gain.lo

\* "opt_gamble_money >= config.minimum_money && rs > opt_gamble_money +
\* config.minimum_gain as u64"
Profitable(opt_gamble_money, rs) ==
    /\ opt_gamble_money >= config.minimum_money
    /\ rs > opt_gamble_money + AsU64(minimum_gain)

\* cng without the branch "else { cng = true; }": a set bit alone starts no
\* evaluation
cng_CooldownOnly ==
    \E i \in CycleIds :
        /\ ~cycle_needs_update[i]
        /\ cycle_cooldown[i] # 0
        /\ Profitable(cycle_money[i], cycle_gain[i])

\* the first loop over the cycles: is there anything to do
cng ==
    \E i \in CycleIds :
        \/ cycle_needs_update[i]
        \/ /\ cycle_cooldown[i] # 0
           /\ Profitable(cycle_money[i], cycle_gain[i])

\* the outcome of the body of the second loop for one cycle: the values it
\* leaves in cycle_money, cycle_gain and cycle_cooldown, and whether it calls
\* execute_path
Outcome(opt_gamble_money, rs, cooldown, execute, branch) ==
    [money |-> opt_gamble_money, gain |-> rs, cooldown |-> cooldown,
     execute |-> execute, branch |-> branch]

\* the cooldown branch without "cycle_cooldown[ i ] = cycle_cooldown[ i ] - 1"
CooldownBranch_NoDecrement(i) ==
    Outcome(cycle_money[i], cycle_gain[i], cycle_cooldown[i],
            Profitable(cycle_money[i], cycle_gain[i]), "cooldown")

\* the branch "else if !cycle_needs_update[ i ]"
CooldownBranch(i) ==
    Outcome(cycle_money[i], cycle_gain[i], cycle_cooldown[i] - 1,
            Profitable(cycle_money[i], cycle_gain[i]), "cooldown")

\* the branch "else", from "let rs = self.compute_potential( .. )" on
Simulated(i, opt_gamble_money, rs) ==
    IF cycle_gain[i] = rs
    THEN Outcome(opt_gamble_money, cycle_gain[i], cycle_cooldown[i], FALSE, "recompute")
    ELSE Outcome(opt_gamble_money, rs, config.cooldown,
                 ExceedsU128(rs, opt_gamble_money, minimum_gain), "recompute")

\* the branch "else", from "if opt_gamble_money == cycle_money[ i ]" on
Solved(i, opt_gamble_money) ==
    IF opt_gamble_money = cycle_money[i]
    THEN Outcome(cycle_money[i], cycle_gain[i], cycle_cooldown[i], FALSE, "recompute")
    ELSE IF opt_gamble_money < config.minimum_money
    THEN Outcome(opt_gamble_money, cycle_gain[i], cycle_cooldown[i], FALSE, "recompute")
    ELSE Simulated(i, opt_gamble_money,
                   compute_potential(CyclePath(i), pool_prices, opt_gamble_money))

\* the body of the second loop for a cycle in its cooldown or past it, with
\* the test "cycle_cooldown[ i ] == 0" left out
EvalCycle_IgnoresCooldown(i) ==
    IF ~cycle_needs_update[i]
    THEN Outcome(cycle_money[i], cycle_gain[i], Max(cycle_cooldown[i] - 1, 0),
                 Profitable(cycle_money[i], cycle_gain[i]), "cooldown")
    ELSE Solved(i, get_best_gamble_money(CyclePath(i), pool_prices))

\* the body with outcome o ran "cycle_cooldown[ i ] = config.cooldown":  it
\* got past "if cycle_gain[ i ] == rs as u64 { continue; }", so the gain it
\* leaves is not the one it found
Reset(i, o) == o.branch = "recompute" /\ o.gain # cycle_gain[i]

\* the body of the second loop with the branch "cycle_cooldown[ i ] == 0 {
\* continue; }" left out: the cooldown branch runs for every cycle whose bit
\* is clear
EvalCycle_NoSkip(i) ==
    IF ~cycle_needs_update[i] THEN CooldownBranch(i)
    ELSE Solved(i, get_best_gamble_money(CyclePath(i), pool_prices))

\* the body of the second loop for cycle i
EvalCycle(i) ==
    IF ~cycle_needs_update[i] /\ cycle_cooldown[i] = 0
    THEN Outcome(cycle_money[i], cycle_gain[i], cycle_cooldown[i], FALSE, "skip")
    ELSE IF ~cycle_needs_update[i] THEN CooldownBranch(i)
    ELSE Solved(i, get_best_gamble_money(CyclePath(i), pool_prices))

\* the bundle execute_path builds for cycle i at the size of outcome o
Built(i, o) ==
    ExecuteFrom(pools, CyclePath(i), pool_prices, o.money, 1, o.money, 0,
                BudgetInstructions(config.extra_budget))

\* the outcomes of the body for cycles i, i + 1, ... in the order of the loop
RECURSIVE Outcomes(_)
Outcomes(i) ==
    IF i \notin CycleIds THEN <<>> ELSE <<EvalCycle(i)>> \o Outcomes(i + 1)

\* the cycles whose call of execute_path in this pass reaches send_transaction,
\* r[ i + 1 ] being the outcome of the body for cycle i
Senders(r) == {i \in CycleIds : r[i + 1].execute /\ Built(i, r[i + 1]).ok}

\* the call of execute_path for cycle i, sink[ i ] being what send_transaction
\* gives if the call gets there
CallOf(r, sink, i) ==
    Submit(Built(i, r[i + 1]), cycles[i + 1], IF i \in DOMAIN sink THEN sink[i] ELSE "Err")

\* a call of execute_path as recorded: the cycle, the size, the cached gain,
\* the branch of the loop body it was made from, and what became of it
Request(i, o, call) ==
    [cycle |-> i, gamble_money |-> o.money, gain |-> o.gain, branch |-> o.branch,
     result |-> call.result, abandoned |-> call.abandoned, submitted |-> call.submitted]

\* the calls of execute_path of cycles i, i + 1, ... in the order of the loop
RECURSIVE RequestsFrom(_, _, _)
RequestsFrom(r, sink, i) ==
    IF i \notin CycleIds THEN <<>>
    ELSE (IF r[i + 1].execute THEN <<Request(i, r[i + 1], CallOf(r, sink, i))>>
          ELSE <<>>)
         \o RequestsFrom(r, sink, i + 1)

\* the loop body after a call that ran execute_path into the ground
AfterExecute_StopsOnAbandon(outcome, call) ==
    IF call.abandoned THEN [outcome EXCEPT !.cooldown = 0] ELSE outcome

\* the loop body after a call whose submission was to be tried again
AfterExecute_RetriesOnErr(outcome, call) ==
    IF call.result = "None" /\ ~call.abandoned
    THEN [outcome EXCEPT !.cooldown = config.cooldown] ELSE outcome

\* "self.execute_path( .. );": the Option<Signature> returned is dropped and
\* the values the body has left in cycle_money, cycle_gain and cycle_cooldown
\* stay
AfterExecute(outcome, call) == outcome

\* the outcome of the body for cycle i, its call of execute_path included
After(r, sink, i) ==
    IF r[i + 1].execute THEN AfterExecute(r[i + 1], CallOf(r, sink, i)) ELSE r[i + 1]

Min(a, b) == IF a <= b THEN a ELSE b

\* one more pass without a call of execute_path
PassedOneMore(n) == IF n < 0 THEN n ELSE Min(n + 1, config.cooldown)

\* MoneyAfter with the balance lowered by the size of the first call of the
\* pass if send_transaction took it
MoneyAfter_SpendsAccepted(wallet, requests) ==
    IF requests # <<>> /\ requests[1].result = "Some"
    THEN wallet - requests[1].gamble_money
    ELSE wallet

\* self.money after an evaluation pass that made the calls requests of
\* execute_path: execute_path takes "&self" and the loop of run holds no
\* assignment to self.money
MoneyAfter(wallet, requests) == wallet

\* try_recv finds the channel empty: one evaluation pass, then on to recv
EvalPass ==
    /\ pc = "drain"
    /\ chan = <<>>
    /\ pc' = "recv"
    /\ IF cng
       THEN \E r \in {Outcomes(0)} :
            \E sink \in [Senders(r) -> SinkResults] :
                /\ cycle_money' = [i \in CycleIds |-> After(r, sink, i).money]
                /\ cycle_gain' = [i \in CycleIds |-> After(r, sink, i).gain]
                /\ cycle_cooldown' = [i \in CycleIds |-> After(r, sink, i).cooldown]
                /\ cycle_needs_update' = [i \in CycleIds |-> FALSE]
                /\ executed' = RequestsFrom(r, sink, 0)
                /\ since_exec' = [i \in CycleIds |->
                                     IF r[i + 1].execute THEN 0 ELSE PassedOneMore(since_exec[i])]
                /\ last_gap' = [i \in CycleIds |->
                                   IF r[i + 1].execute /\ since_exec[i] >= 0
                                   THEN Min(since_exec[i] + 1, config.cooldown)
                                   ELSE last_gap[i]]
                /\ since_reset' = [i \in CycleIds |->
                                      (IF Reset(i, r[i + 1]) THEN 0 ELSE since_reset[i])
                                      + (IF r[i + 1].execute THEN 1 ELSE 0)]
       ELSE /\ executed' = <<>>
            /\ since_exec' = [i \in CycleIds |-> PassedOneMore(since_exec[i])]
            /\ UNCHANGED <<cycle_money, cycle_gain, cycle_cooldown, cycle_needs_update,
                           last_gap, since_reset>>
    /\ money' = MoneyAfter(money, executed')
    /\ UNCHANGED <<last_event, minimum_gain>>
    /\ UNCHANGED <<ccVars, priceVars, feedVars, amm, stable>>

\* construct_cycles has run in Printer::init;  its loop is at rest
ParkedCycles ==
    /\ cc_start = 0
    /\ cc_max = 0
    /\ cc_pools = <<>>
    /\ cc_i = 1
    /\ cc_tmp = <<>>
    /\ cc_results = <<>>

\* Config::read_from_file: minimum_gain as configured
ConfigInit == minimum_gain = U128(0, config.minimum_gain)

\* Printer::init: "let money = comm.get_current_balance( config, currencies )"
PrinterInit == money = get_current_balance

\* no AmmInstruction is being packed and no StablePrinter has been made
ParkedTools == amm = <<>> /\ stable = <<>>

Init == PriceInit /\ ParkedCycles /\ FeedInit /\ RunInit /\ ConfigInit /\ PrinterInit /\ ParkedTools

\* the pools that are traded on while Spec runs: those on a cycle
TradedPools == {p \in PoolIds : \E i \in CycleIds : pool_update(p)[i]}

Next ==
    \/ \E p \in TradedPools : ChainChange(p)
    \/ \E p \in TradedPools, tkn \in {0, 1} : Notify(p, tkn)
    \/ DrainEvent
    \/ RecvEvent
    \/ EvalPass

Spec == Init /\ [][Next]_vars

(***************************************************************************)
(* Printer::run under any configured minimum_gain.                         *)
(***************************************************************************)
\* the configured values of minimum_gain: below and above 2^64
MinimumGains == {U128(0, config.minimum_gain), U128(1, config.minimum_gain)}

GainInit ==
    /\ PriceInit /\ ParkedCycles /\ FeedInit /\ RunInit
    /\ minimum_gain \in MinimumGains
    /\ PrinterInit /\ ParkedTools

SpecGain == GainInit /\ [][Next]_vars

\* C11: every call of execute_path of an evaluation pass, in the recompute
\* branch and in the cooldown branch, is for a size s and a gain g with
\* g > s + minimum_gain as mathematical integers.
C11_ExecutedAboveThreshold ==
    \A k \in 1 .. Len(executed) :
        /\ minimum_gain.hi = 0
        /\ executed[k].gain > executed[k].gamble_money + minimum_gain.lo

(***************************************************************************)
(* Properties of the price cache under the feed, and of the scheduler.     *)
(***************************************************************************)
SwapPoolIds == {p \in PoolIds : pools[p].kind = "Swap"}

InsaneOn(i) == {p \in PathPools(CyclePath(i)) : ~pool_prices[p].sanity}

\* C2: with both reserve accounts of a pool changed at once, one notification
\* per leg and change, the notifications of one account in order and those of
\* the two accounts interleaved freely, a swap pool whose sanity flag is true
\* caches two reserves of the same on-chain change.
C2_SaneMeansSameSnapshot ==
    \A p \in SwapPoolIds :
        pool_prices[p].sanity =>
            /\ price_slot[p][1] = price_slot[p][2]
            /\ \E n \in 0 .. chain[p] :
                   /\ pool_prices[p].token_price[1].raw = ChainReserve(p, 0, n)
                   /\ pool_prices[p].token_price[2].raw = ChainReserve(p, 1, n)

\* C4: handling a feed event of pool P sets the needs-update bit of every cycle
\* whose path holds P and leaves the bit of every other cycle as it was.
C4_FanOutExact ==
    [][(chan # <<>> /\ chan' = Tail(chan)) =>
          \A i \in CycleIds :
              IF Head(chan).pool \in PathPools(CyclePath(i))
              THEN cycle_needs_update'[i]
              ELSE cycle_needs_update'[i] = cycle_needs_update[i]]_vars

\* an event of pool 2 has just been handled after a pass cleared the bits: the
\* bit of every cycle through pool 2 is set and that of the cycles of pools 0
\* and 1 alone is still clear;  earlier in the same run an event of pool 0 was
\* handled
C4_Witness ==
    /\ pc = "drain"
    /\ last_event # <<>>
    /\ last_event[1].pool = 2
    /\ PathPools(CyclePath(0)) = {0, 1}
    /\ \A i \in CycleIds : cycle_needs_update[i] <=> 2 \in PathPools(CyclePath(i))
    /\ \E i \in CycleIds : cycle_needs_update[i]
    /\ price_slot[0] # <<0, 0>>

\* C7: with events of pools 0 and 1 only (the two pools of the round trip), two
\* calls of execute_path for the profitable cycle never fall into one window of
\* config.cooldown evaluation passes.
C7_OneExecutionPerWindow ==
    chain[2] = 0 => (last_gap[0] = 0 \/ last_gap[0] >= config.cooldown)

\* C8: when an evaluation pass has called execute_path for a cycle, every pool
\* on the path of that cycle is sane (pc = "recv": the pass is the last thing
\* that happened to the prices).
C8_NoExecutionOnInsanePath ==
    pc = "recv" =>
        \A k \in 1 .. Len(executed) : InsaneOn(executed[k].cycle) = {}

\* C9: compute_potential is 0 for every cycle with a pool that is not sane,
\* wherever the pool is on the path, and every size up to max_gamble_money.
C9_PotentialZeroIfInsane ==
    \A i \in CycleIds :
        InsaneOn(i) # {} =>
            \A gamble_money \in 1 .. get_gamble_money :
                compute_potential(CyclePath(i), pool_prices, gamble_money) = 0

\* the second pool of cycle 0 is not sane and the first is, and the cached
\* reserves would give a positive yield
C9_Witness ==
    /\ CyclePath(0)[2][1] = 1
    /\ ~pool_prices[1].sanity
    /\ pool_prices[0].sanity
    /\ compute_potential(CyclePath(0), pool_prices, get_gamble_money) = 0
    /\ compute_potential(CyclePath(0),
                         [pool_prices EXCEPT ![1].sanity = TRUE], get_gamble_money) > 0

\* prices with the reserves of pool p replaced by those of its n-th change
WithSnapshot(prices, p, n) ==
    [prices EXCEPT ![p].token_price[1].raw = ChainReserve(p, 0, n),
                   ![p].token_price[2].raw = ChainReserve(p, 1, n)]

\* C10: a pool that is not sane is unusable for every consumer: its quote is
\* ( 0, 0 ), and neither the size of get_best_gamble_money nor the leg amounts
\* of execute_path depend on its cached reserves.
C10_NonSaneUnusable ==
    \A p \in SwapPoolIds :
        ~pool_prices[p].sanity =>
            /\ \A direction \in {0, 1}, toys_in \in 1 .. get_gamble_money :
                   PoolPriceSwap(pool_prices[p], toys_in, direction, pools[p]) = <<0, 0>>
            /\ \A i \in CycleIds, n \in 0 .. MaxChanges :
                   p \in PathPools(CyclePath(i)) =>
                       /\ get_best_gamble_money(CyclePath(i), WithSnapshot(pool_prices, p, n))
                              = get_best_gamble_money(CyclePath(i), pool_prices)
                       /\ execute_path(CyclePath(i), WithSnapshot(pool_prices, p, n),
                                       get_gamble_money)
                              = execute_path(CyclePath(i), pool_prices, get_gamble_money)

\* cycle i has a call of execute_path in the latest pass
Requested(reqs, i) == \E k \in 1 .. Len(reqs) : reqs[k].cycle = i

\* what C12 asks of a step that evaluates cycle i with the recomputed size
\* opt_gamble_money and output rs
RecomputedAsWhole(i, opt_gamble_money, rs) ==
    IF opt_gamble_money = cycle_money[i] /\ rs = cycle_gain[i]
    THEN /\ cycle_money'[i] = cycle_money[i]
         /\ cycle_gain'[i] = cycle_gain[i]
         /\ cycle_cooldown'[i] = cycle_cooldown[i]
         /\ ~Requested(executed', i)
    ELSE /\ cycle_money'[i] = opt_gamble_money
         /\ cycle_gain'[i] = rs
         /\ cycle_cooldown'[i] = config.cooldown
         /\ Requested(executed', i) <=> ExceedsU128(rs, opt_gamble_money, minimum_gain)

\* C12: an evaluation pass clears the needs-update flag of a cycle that has
\* it set and recomputes size and output;  a pair equal to the cached pair
\* changes nothing else, and any other pair replaces the cached size and gain,
\* resets the cooldown and is tested against the threshold.
C12_RecomputeReplacesCache ==
    [][(pc = "drain" /\ pc' = "recv") =>
          \A i \in CycleIds :
              cycle_needs_update[i] =>
                  /\ ~cycle_needs_update'[i]
                  /\ RecomputedAsWhole(i,
                         get_best_gamble_money(CyclePath(i), pool_prices),
                         compute_potential(CyclePath(i), pool_prices,
                             get_best_gamble_money(CyclePath(i), pool_prices)))]_vars

(***************************************************************************)
(* Printer::run when the feed is lost and when the RPC node fails.  The    *)
(* subscriptions share one websocket client;  when it goes, the stream of  *)
(* every subscription comes to its end (next( ) yields None from then on)  *)
(* or yields an error.  The thread of run advances whenever it is not      *)
(* blocked in recv, and so do the subscription tasks.                      *)
(***************************************************************************)
Hows == {"ended", "failed"}

\* the client is gone: every stream still open ends, or every one fails.  A
\* task whose stream failed has panicked in response_ab.unwrap( ) and has
\* dropped its account_sender;  a task whose stream ended loops on
\* "None => { }" and keeps it
Disconnect(how) ==
    /\ \E p \in PoolIds : \E a \in DOMAIN stream[p] : stream[p][a] = "open"
    /\ stream' = [p \in PoolIds |->
                     [a \in DOMAIN stream[p] |->
                         IF stream[p][a] = "open" THEN how ELSE stream[p][a]]]
    /\ UNCHANGED <<chain, notified, chan>>
    /\ UNCHANGED <<ccVars, priceVars, runVars, cfgVars, amm, stable>>

\* some task still holds a clone of account_sender
SendersAlive == \E p \in PoolIds : \E a \in DOMAIN stream[p] : stream[p][a] # "failed"

\* account_receiver.recv( ) yields Err: the channel is empty and every sender
\* is dropped;  run prints the error and calls std::process::exit( 1 )
RecvDisconnected ==
    /\ pc = "recv"
    /\ chan = <<>>
    /\ ~SendersAlive
    /\ pc' = "exited"
    /\ UNCHANGED <<cycle_cooldown, cycle_gain, cycle_money, cycle_needs_update,
                   executed, last_event, since_exec, last_gap, since_reset>>
    /\ UNCHANGED <<ccVars, priceVars, feedVars, cfgVars, amm, stable>>

\* try_recv finds the channel empty, there is something to do and
\* comm_send.get_blockhash( ) gets an error from the node: its unwrap( ) panics
EvalPassBlockhashErr ==
    /\ pc = "drain"
    /\ chan = <<>>
    /\ cng
    /\ pc' = "panicked"
    /\ UNCHANGED <<cycle_cooldown, cycle_gain, cycle_money, cycle_needs_update,
                   executed, last_event, since_exec, last_gap, since_reset>>
    /\ UNCHANGED <<ccVars, priceVars, feedVars, cfgVars, amm, stable>>

\* a step of the thread of Printer::run
RunStep ==
    \/ DrainEvent
    \/ RecvEvent
    \/ EvalPass
    \/ EvalPassBlockhashErr
    \/ RecvDisconnected

\* a step of a subscription task
TaskStep == \E p \in TradedPools, tkn \in {0, 1} : Notify(p, tkn)

FaultsNext ==
    \/ \E p \in TradedPools : ChainChange(p)
    \/ TaskStep
    \/ RunStep
    \/ \E how \in Hows : Disconnect(how)

\* the steps of RunStep by what they do to pc and chan: no other step of
\* FaultsNext takes an event off the channel or changes pc
RunMoves ==
    \/ pc \in {"drain", "recv"} /\ chan # <<>> /\ chan' = Tail(chan) /\ pc' = "drain"
    \/ pc = "drain" /\ chan = <<>> /\ chan' = chan /\ pc' = "recv"
    \/ pc = "drain" /\ chan = <<>> /\ cng /\ chan' = chan /\ pc' = "panicked"
    \/ pc = "recv" /\ chan = <<>> /\ ~SendersAlive /\ chan' = chan /\ pc' = "exited"

\* the thread of run is never starved, and neither are the tasks
SpecFaults ==
    Init /\ [][FaultsNext]_vars /\ WF_<<pc, chan>>(RunMoves) /\ WF_vars(TaskStep)

\* every subscription stream has ended or failed
FeedLost == \A p \in PoolIds : \A a \in DOMAIN stream[p] : stream[p][a] # "open"

Terminated == pc \in {"exited", "panicked"}

\* C13: once every subscription stream has ended or failed, Printer::run
\* terminates the process: it does not stay blocked for ever and it does not
\* go on evaluating.
C13_FeedLossTerminates == FeedLost ~> Terminated

\* C16: after startup Printer::run terminates the process only on
\* unrecoverable loss of the feed (every account_sender dropped): a failure
\* of the sink, such as no recent blockhash at the start of an evaluation
\* pass, never ends or panics it.
C16_OnlyFeedLossTerminates == Terminated => ~SendersAlive

(***************************************************************************)
(* Properties of the calls of execute_path made by an evaluation pass.     *)
(***************************************************************************)
\* a call of execute_path that went through: a bundle sent and accepted
NormalCall == [result |-> "Some", abandoned |-> FALSE, submitted |-> <<>>]

\* the values the body for cycle i leaves in the cache when its call of
\* execute_path, if it makes one, goes through
Normally(i) == AfterExecute(EvalCycle(i), NormalCall)

\* the step is an evaluation pass that leaves the cache of every cycle as it
\* is when every call goes through, has called execute_path for every cycle
\* whose body asks for it, has left the prices alone and goes on to recv
PassAsNormal ==
    /\ pc' = "recv"
    /\ pool_prices' = pool_prices
    /\ \A i \in CycleIds :
           /\ cycle_money'[i] = Normally(i).money
           /\ cycle_gain'[i] = Normally(i).gain
           /\ cycle_cooldown'[i] = Normally(i).cooldown
           /\ cycle_needs_update'[i] = FALSE
           /\ EvalCycle(i).execute <=> Requested(executed', i)

\* the calls of reqs in which Pool::swap returned false
Abandoned(reqs) == {k \in 1 .. Len(reqs) : reqs[k].abandoned}

\* the calls of reqs whose bundle send_transaction answered with an error
Rejected(reqs) == {k \in 1 .. Len(reqs) : ~reqs[k].abandoned /\ reqs[k].result = "None"}

\* C14: when Pool::swap returns false for a leg, execute_path submits no
\* bundle for that cycle in this round, the cache of every cycle (size, gain,
\* cooldown, needs-update flag) and the prices are as after a call that went
\* through, and the pass goes on to the remaining cycles.
C14_AbandonedCallHarmless ==
    [][(pc = "drain" /\ pc' # pc /\ cng /\ Abandoned(executed') # {}) =>
           /\ \A k \in Abandoned(executed') : executed'[k].submitted = <<>>
           /\ PassAsNormal]_vars

\* a pass in which a bundle was sent for one cycle, the call for the next was
\* abandoned, and the body of a later cycle was still run and called
\* execute_path
C14_Witness ==
    /\ pc = "recv"
    /\ \E k \in Abandoned(executed) :
           /\ executed[k].submitted = <<>>
           /\ \E j \in 1 .. Len(executed) : j < k /\ executed[j].submitted # <<>>
           /\ \E j \in 1 .. Len(executed) : j > k /\ executed[j].cycle > executed[k].cycle

\* C15: a submission that send_transaction answers with an error does not end
\* Printer::run, and leaves the size, gain, cooldown and needs-update flag of
\* every cycle as a submission that went through leaves them.
C15_RejectedSubmissionHarmless ==
    [][(pc = "drain" /\ pc' # pc /\ cng /\ Rejected(executed') # {}) => PassAsNormal]_vars

\* a pass one of whose bundles was rejected, made from the cooldown branch
C15_Witness ==
    /\ pc = "recv"
    /\ \E k \in Rejected(executed) :
           /\ executed[k].submitted # <<>>
           /\ executed[k].branch = "cooldown"

(***************************************************************************)
(* execute_path on any pools: Printer::init has built the cycles of a drawn *)
(* pool vector, and execute_path is called once (by run or by test_path)   *)
(* for one of them with a size, config.extra_budget and an answer of       *)
(* send_transaction.                                                       *)
(***************************************************************************)
\* the pools drawn from: Swap pools with and without needs_approve, one of
\* them charging fees, Raydium pools with both extra accounts and with one
\* missing
ExecShapes ==
    {SwapPool(0, 1, FALSE), SwapPool(0, 1, TRUE), SwapPool(1, 0, TRUE),
     [SwapPool(1, 0, FALSE) EXCEPT !.fees = Fees(1, 4, 1, 10)],
     SwapPool(1, 2, FALSE), SwapPool(2, 0, TRUE),
     WithExtraAccounts(RaydiumPool(1, 0), TRUE, TRUE),
     WithExtraAccounts(RaydiumPool(1, 0), TRUE, FALSE),
     WithExtraAccounts(RaydiumPool(2, 0), FALSE, TRUE)}

\* the reserves of the drawn pools, ( leg 0, leg 1 )
ExecReserves == {<<100, 200>>, <<3, 7>>}

\* the sizes execute_path is called with
ExecSizes == {1, 33}

\* the values of config.extra_budget
ExecBudgets == {0, 5}

\* PoolPrice::init for pool on reserves res
ExecPoolPrice(pool, res) ==
    [sanity |-> TRUE,
     token_price |->
         <<TokenPrice(res[1], currencies[get_currency(pool, 0).currency_idx].decimals),
           TokenPrice(res[2], currencies[get_currency(pool, 1).currency_idx].decimals)>>,
     token_updated |-> <<FALSE, FALSE>>]

ExecInit ==
    /\ cc_start = config.start_currency
    /\ cc_max = config.max_cycle_length
    /\ cc_pools \in [{0, 1, 2} -> ExecShapes]
    /\ cc_i = cc_max
    /\ cc_tmp = <<>>
    /\ cc_results = construct_cycles(cc_start, cc_pools, cc_max)
    /\ \E res \in ExecReserves :
           pool_prices = [p \in DOMAIN cc_pools |-> ExecPoolPrice(cc_pools[p], res)]
    /\ price_slot = [p \in PoolIds |-> <<0, 0>>]
    /\ applied = <<>>
    /\ FeedInit /\ RunInit /\ ConfigInit /\ PrinterInit /\ ParkedTools

\* a call of execute_path as recorded: its arguments, the instructions it has
\* built when it returns, and what became of it
ExecCall(idx, gamble_money, extra_budget, instructions, call) ==
    [cycle |-> idx, gamble_money |-> gamble_money, extra_budget |-> extra_budget,
     instructions |-> instructions,
     result |-> call.result, abandoned |-> call.abandoned, submitted |-> call.submitted]

\* self.execute_path( comm_send, &self.cycles[ idx ], gamble_money, .. )
CallExecutePath(idx, gamble_money, extra_budget, sink) ==
    /\ executed = <<>>
    /\ executed' =
           <<ExecCall(idx, gamble_money, extra_budget,
                      ExecuteFrom(cc_pools, cc_results[idx + 1].path, pool_prices,
                                  gamble_money, 1, gamble_money, 0,
                                  BudgetInstructions(extra_budget)).instructions,
                      ExecutePath(cc_pools, extra_budget, cc_results[idx + 1],
                                  pool_prices, gamble_money, sink))>>
    /\ UNCHANGED <<pc, cycle_cooldown, cycle_gain, cycle_money, cycle_needs_update,
                   last_event, since_exec, last_gap, since_reset>>
    /\ UNCHANGED <<ccVars, priceVars, feedVars, cfgVars, amm, stable>>

ExecNext ==
    \E idx \in 0 .. Len(cc_results) - 1, gamble_money \in ExecSizes,
       extra_budget \in ExecBudgets, sink \in SinkResults :
        CallExecutePath(idx, gamble_money, extra_budget, sink)

SpecExecute == ExecInit /\ [][ExecNext]_vars

\* the swap instructions of a sequence of instructions, in order
IsSwap(ins) == ins.kind = "swap"

Swaps(instructions) == SelectSeq(instructions, IsSwap)

\* the path of the cycle of a recorded call
PathOf(call) == cc_results[call.cycle + 1].path

\* C18: in every bundle execute_path builds for a cycle and a size s, the swap
\* instruction of the final leg carries minimum_amount_out = s and that of
\* every other leg carries minimum_amount_out = 0.
C18_OnlyFinalLegGuarded ==
    \A k \in 1 .. Len(executed) :
        LET swaps == Swaps(executed[k].instructions)
        IN  \A j \in 1 .. Len(swaps) :
                swaps[j].minimum_amount_out =
                    IF j = Len(PathOf(executed[k])) THEN executed[k].gamble_money ELSE 0

\* a bundle of three legs sent after a compute-budget instruction
C18_Witness ==
    \E k \in 1 .. Len(executed) :
        /\ executed[k].submitted # <<>>
        /\ executed[k].extra_budget > 0
        /\ Len(PathOf(executed[k])) = 3
        /\ Len(Swaps(executed[k].submitted[1].instructions)) = 3
        /\ Swaps(executed[k].submitted[1].instructions)[3].minimum_amount_out = 33

\* C19: a call of execute_path that submits anything submits one bundle, and
\* the bundle holds one swap instruction for every leg of the cycle, in the
\* order of the path.
C19_OneSwapPerLeg ==
    \A k \in 1 .. Len(executed) :
        /\ Len(executed[k].submitted) <= 1
        /\ \A b \in 1 .. Len(executed[k].submitted) :
               LET swaps == Swaps(executed[k].submitted[b].instructions)
                   path == PathOf(executed[k])
               IN  /\ Len(swaps) = Len(path)
                   /\ \A j \in 1 .. Len(swaps) :
                          /\ swaps[j].pool = path[j][1]
                          /\ swaps[j].direction = path[j][2]

\* a bundle of three legs sent on the small reserves, where the quote of a
\* leg is ( 0, 0 )
C19_Witness ==
    \E k \in 1 .. Len(executed) :
        /\ executed[k].submitted # <<>>
        /\ Len(PathOf(executed[k])) = 3
        /\ \E j \in 1 .. 3 : Swaps(executed[k].submitted[1].instructions)[j].amount_in = 0

\* C20: in every bundle execute_path builds, the swap instruction of a leg
\* comes right after an approve instruction for that leg iff the pool of the
\* leg has needs_approve set, and the extra signer of the call is among the
\* signers of every submitted bundle that holds an approve instruction.
C20_ApproveIffNeeded ==
    \A k \in 1 .. Len(executed) :
        LET ins == executed[k].instructions
        IN  /\ \A j \in 1 .. Len(ins) :
                   ins[j].kind = "swap" =>
                       ((/\ j > 1
                         /\ ins[j - 1].kind = "approve"
                         /\ ins[j - 1].pool = ins[j].pool)
                        <=> needs_approval(cc_pools[ins[j].pool]))
            /\ \A b \in 1 .. Len(executed[k].submitted) :
                   (\E j \in 1 .. Len(executed[k].submitted[b].instructions) :
                        executed[k].submitted[b].instructions[j].kind = "approve")
                   => \E n \in 1 .. Len(executed[k].submitted[b].signers) :
                          executed[k].submitted[b].signers[n] = "extra_signer"

\* a submitted bundle with a leg that is approved and a leg that is not
C20_Witness ==
    \E k \in 1 .. Len(executed) :
        /\ executed[k].submitted # <<>>
        /\ \E j \in 1 .. Len(executed[k].instructions) :
               executed[k].instructions[j].kind = "approve"
        /\ \E j \in 1 .. Len(PathOf(executed[k])) :
               ~needs_approval(cc_pools[PathOf(executed[k])[j][1]])
        /\ executed[k].submitted[1].signers = <<"wallet", "extra_signer">>

(***************************************************************************)
(* get_best_gamble_money on any prices, wallet and configured minimum_money *)
(* and greed: the cache holds reserves the feed can bring about, or a       *)
(* balanced pool, and the solver is called once (by run or by act) for a    *)
(* path.                                                                   *)
(***************************************************************************)
\* the reserve of both legs of the balanced pool
BalancedReserve == 1000000

\* the wallet balances Printer::init reads
Wallets == {10, 100, 2002}

\* the values of config.minimum_money
MinimumMoneys == {0, 1, 40, 60}

\* the values of config.greed
Greeds == {[num |-> 1, den |-> 1], [num |-> 1, den |-> 2]}

\* PoolPrice of pool p with both reserves as after its n-th on-chain change
SnapshotPrice(p, n) ==
    [PoolPriceInit(p) EXCEPT !.token_price[1].raw = ChainReserve(p, 0, n),
                             !.token_price[2].raw = ChainReserve(p, 1, n)]

\* PoolPrice of pool p with both reserves at BalancedReserve
BalancedPrice(p) ==
    [PoolPriceInit(p) EXCEPT !.token_price[1].raw = BalancedReserve,
                             !.token_price[2].raw = BalancedReserve]

\* the paths the solver is called for: those of the cycles, and pool 0 alone.
\* The solver and compute_potential read the fees of a pool and the decimals
\* of its two currencies, which are equal here, and not the currencies
\* themselves
SolverPaths == {CyclePath(i) : i \in CycleIds} \cup {<<<<0, 0>>>>}

SolverInit ==
    /\ \/ \E n \in [PoolIds -> 0 .. MaxChanges] :
              pool_prices = [p \in PoolIds |-> SnapshotPrice(p, n[p])]
       \/ pool_prices = [p \in PoolIds |->
                             IF p = 0 THEN BalancedPrice(p) ELSE SnapshotPrice(p, 0)]
    /\ price_slot = [p \in PoolIds |-> <<0, 0>>]
    /\ applied = <<>>
    /\ ParkedCycles /\ FeedInit /\ RunInit /\ ConfigInit /\ PrinterInit /\ ParkedTools

\* a call of get_best_gamble_money as recorded: its arguments, the optimum
\* before the test against minimum_money and max_gamble_money, and the size
\* returned
SolverCall(path, minimum_money, greed, max_gamble_money) ==
    [path |-> path, minimum_money |-> minimum_money, greed |-> greed,
     max_gamble_money |-> max_gamble_money,
     optimum |-> GambleMoneyOptimum(greed, path, pool_prices),
     gamble_money |-> BestGambleMoney(minimum_money, greed, max_gamble_money, path,
                                      pool_prices)]

\* self.get_best_gamble_money( config, cycle, &pool_prices )
CallBestGambleMoney(path, minimum_money, greed, wallet) ==
    /\ executed = <<>>
    /\ executed' = <<SolverCall(path, minimum_money, greed, GambleMoney(wallet))>>
    /\ UNCHANGED <<pc, cycle_cooldown, cycle_gain, cycle_money, cycle_needs_update,
                   last_event, since_exec, last_gap, since_reset>>
    /\ UNCHANGED <<ccVars, priceVars, feedVars, cfgVars, amm, stable>>

SolverNext ==
    \E path \in SolverPaths, minimum_money \in MinimumMoneys, greed \in Greeds,
       wallet \in Wallets :
        CallBestGambleMoney(path, minimum_money, greed, wallet)

SpecSolver == SolverInit /\ [][SolverNext]_vars

Neighbours(x, minimum_money, max_gamble_money) ==
    {near \in {x - 1, x + 1} : minimum_money <= near /\ near <= max_gamble_money}

\* output - input of a size along a path on the cached prices
Profit(path, gamble_money) ==
    compute_potential(path, pool_prices, gamble_money) - gamble_money

\* C24: for a path of one pool with reserves ( 1,000,000; 1,000,000 ), no
\* fee, no slippage and greed = 1, no size y next to the size x that
\* get_best_gamble_money returns has a greater compute_potential( y ) - y
\* than x has.
C24_SolverMaximizesProfit ==
    \A k \in 1 .. Len(executed) :
        (/\ Len(executed[k].path) = 1
         /\ pool_prices[executed[k].path[1][1]] = BalancedPrice(executed[k].path[1][1])
         /\ executed[k].greed = [num |-> 1, den |-> 1])
        => \A near \in Neighbours(executed[k].gamble_money, executed[k].minimum_money,
                                  executed[k].max_gamble_money) :
               Profit(executed[k].path, near)
                   <= Profit(executed[k].path, executed[k].gamble_money)

(***************************************************************************)
(* Printer::run with trades on the swap pools, the pool on no cycle        *)
(* included: its events wake the loop and set no needs-update bit.          *)
(***************************************************************************)
\* the pools that are traded on while SpecIdle runs
IdlePools == {p \in PoolIds : pools[p].kind = "Swap"}

IdleNext ==
    \/ \E p \in IdlePools : ChainChange(p)
    \/ \E p \in IdlePools, tkn \in {0, 1} : Notify(p, tkn)
    \/ DrainEvent
    \/ RecvEvent
    \/ EvalPass

SpecIdle == Init /\ [][IdleNext]_vars

\* one iteration of the loop of run, from the empty try_recv to recv
Iteration == pc = "drain" /\ chan = <<>> /\ pc' = "recv"

\* cycle i is in its cooldown: needs-update clear and cycle_cooldown > 0
InCooldown(i) == ~cycle_needs_update[i] /\ cycle_cooldown[i] > 0

\* what the cooldown branch does for cycle i over a step
CooldownStep(i) ==
    /\ cycle_cooldown'[i] = cycle_cooldown[i] - 1
    /\ cycle_money'[i] = cycle_money[i]
    /\ cycle_gain'[i] = cycle_gain[i]
    /\ (\E k \in 1 .. Len(executed') : executed'[k].cycle = i)
           <=> Profitable(cycle_money[i], cycle_gain[i])

Blocked == pc = "recv" /\ chan = <<>>

\* C26: whenever run blocks in recv, no cycle has needs-update set and no
\* cycle has cooldown > 0 together with cached values that pass the
\* threshold.
C26_BlocksOnlyWhenIdle ==
    Blocked => \A i \in CycleIds :
                   /\ ~cycle_needs_update[i]
                   /\ ~(cycle_cooldown[i] > 0 /\ Profitable(cycle_money[i], cycle_gain[i]))

\* the step in which the cycles are evaluated: from try_recv to recv
PassStep == pc = "drain" /\ pc' = "recv"

\* event ev has been applied over a step: the bits of the cycles through its
\* pool are set, and the reserve of a swap pool is the amount of the event
EventApplied(ev) ==
    /\ \A i \in CycleIds : pool_update(ev.pool)[i] => cycle_needs_update'[i]
    /\ (pools[ev.pool].kind = "Swap" /\ ev.result.decodes)
           => pool_prices'[ev.pool].token_price[ev.tkn + 1].raw = ev.result.amount

\* the cache of swap pool p holds, for both legs, the reserve of the latest
\* notification sent
CacheIsLatest(p) ==
    \A tkn \in {0, 1} :
        /\ price_slot[p][tkn + 1] = notified[p][tkn + 1]
        /\ pool_prices[p].token_price[tkn + 1].raw = ChainReserve(p, tkn, notified[p][tkn + 1])

\* C27: the cycles are evaluated only when try_recv has found the channel
\* empty, and then the cache of every swap pool holds the latest reserves
\* sent;  an event leaves the channel only from its head and is applied to
\* the price cache and the needs-update bits in that step;  a needs-update
\* bit is cleared only by the evaluation.
C27_DrainedBeforePass ==
    [][/\ PassStep => /\ chan = <<>>
                       /\ \A p \in PoolIds : pools[p].kind = "Swap" => CacheIsLatest(p)
       /\ (chan' # chan /\ Len(chan') <= Len(chan))
              => chan # <<>> /\ chan' = Tail(chan) /\ EventApplied(Head(chan))
       /\ (\E i \in CycleIds : cycle_needs_update[i] /\ ~cycle_needs_update'[i])
              => PassStep]_vars

\* the first drain has applied both events of a change of pool 0 and the
\* first event of a change of pool 1, the channel is empty and no cycle has
\* been evaluated yet
C27_Witness ==
    /\ pc = "drain" /\ chan = <<>>
    /\ price_slot[0] = <<1, 1>> /\ price_slot[1] = <<1, 0>>
    /\ \A i \in CycleIds : cycle_needs_update[i] /\ cycle_money[i] = 0

\* the pairing logic has been applied to the flags of pool p for leg tkn over
\* a step
PairingApplied(p, tkn) ==
    IF pool_prices[p].token_updated[(1 - tkn) + 1]
    THEN /\ pool_prices'[p].token_updated = <<FALSE, FALSE>>
         /\ pool_prices'[p].sanity
    ELSE /\ pool_prices'[p].token_updated[tkn + 1]
         /\ ~pool_prices'[p].sanity

\* C28: for every event ( pool, leg, new_reserve ) that decodes, of a pool of
\* any kind, after the event is processed the cached reserve of that leg of
\* the pool is new_reserve and the pairing logic has been applied to the
\* flags of the pool.
C28_EveryKindUpdated ==
    [][(chan # <<>> /\ chan' = Tail(chan) /\ Head(chan).result.decodes)
          => /\ pool_prices'[Head(chan).pool].token_price[Head(chan).tkn + 1].raw
                    = Head(chan).result.amount
             /\ PairingApplied(Head(chan).pool, Head(chan).tkn)]_vars

\* C29: processing one event of ( pool p, leg l ) leaves the PoolPrice of
\* every other pool, the reserve of leg 1 - l of pool p, and the cached
\* size, cached gain and cooldown of every cycle as they were, and issues no
\* call of execute_path.
C29_EventFrame ==
    [][(chan # <<>> /\ chan' = Tail(chan))
          => /\ \A q \in PoolIds \ {Head(chan).pool} : pool_prices'[q] = pool_prices[q]
             /\ pool_prices'[Head(chan).pool].token_price[(1 - Head(chan).tkn) + 1]
                    = pool_prices[Head(chan).pool].token_price[(1 - Head(chan).tkn) + 1]
             /\ UNCHANGED <<cycle_money, cycle_gain, cycle_cooldown, executed>>]_vars

\* an event of leg 0 of pool 0 has been applied after a pass that executed:
\* leg 0 holds the new reserve and leg 1 the old one, the caches of the cycles
\* and the calls of that pass stand
C29_Witness ==
    /\ pc = "drain"
    /\ last_event # <<>> /\ last_event[1].pool = 0 /\ last_event[1].tkn = 0
    /\ pool_prices[0].token_price[1].raw = ChainReserve(0, 0, 1)
    /\ pool_prices[0].token_price[2].raw = ChainReserve(0, 1, 0)
    /\ ~pool_prices[0].sanity
    /\ executed # <<>>
    /\ cycle_money[0] > 0 /\ cycle_cooldown[0] = config.cooldown

\* C30: between two consecutive resets of the cooldown of a cycle, and
\* before the first, at most config.cooldown + 1 calls of execute_path are made
\* for the cycle, whatever events arrive.
C30_CooldownBoundsExecutions ==
    \A i \in CycleIds : since_reset[i] <= config.cooldown + 1

\* a cycle executed config.cooldown + 1 times since the reset of its
\* cooldown, which has run out
C30_Witness ==
    \E i \in CycleIds :
        /\ since_reset[i] = config.cooldown + 1
        /\ cycle_cooldown[i] = 0
        /\ \E k \in 1 .. Len(executed) :
               executed[k].cycle = i /\ executed[k].branch = "cooldown"

(***************************************************************************)
(* One PoolPrice under an arbitrary sequence of single-leg updates.        *)
(***************************************************************************)
Amounts == {100, 120}

\* the payloads of the events: an account holding one of the amounts, or one
\* that does not decode
Payloads == {Payload(amount) : amount \in Amounts} \cup {Malformed}

ApplyUpdate(tkn, account_data) ==
    /\ Len(applied) < MaxHist
    /\ pool_prices' = [pool_prices EXCEPT
                          ![0] = UpdatePoolPrice(pools[0], @, tkn, account_data)]
    /\ applied' = Append(applied, tkn)
    /\ UNCHANGED price_slot
    /\ UNCHANGED <<ccVars, feedVars, runVars, cfgVars, amm, stable>>

PairingInit == PriceInit /\ ParkedCycles /\ FeedInit /\ RunInit /\ ConfigInit /\ PrinterInit /\ ParkedTools

PairingNext == \E tkn \in {0, 1}, account_data \in Payloads : ApplyUpdate(tkn, account_data)

SpecPairing == PairingInit /\ [][PairingNext]_vars

\* the last two updates applied went one to leg 0 and one to leg 1
LastTwoDiffer(h) == Len(h) >= 2 /\ h[Len(h)] # h[Len(h) - 1]

\* the history ends with an update that completed a pair: it is empty, or its
\* last two updates went to different legs and the history before the last
\* update did not itself end with a completed pair
RECURSIVE EndsPaired(_)
EndsPaired(h) ==
    IF h = <<>> THEN TRUE
    ELSE LastTwoDiffer(h) /\ ~EndsPaired(SubSeq(h, 1, Len(h) - 1))

\* C1 as claimed (for sequences of at least two updates): sanity is true iff
\* the last two updates applied went one to leg 0 and one to leg 1.
C1_SaneIffLastTwoDiffer ==
    Len(applied) >= 2 => (pool_prices[0].sanity <=> LastTwoDiffer(applied))

\* C1, amended: sanity is true iff the sequence is empty, or its last two
\* updates went one to leg 0 and one to leg 1 and sanity was false before the
\* last of them, i.e. the last update completed a pair.
C1_SaneIffEndsPaired == pool_prices[0].sanity <=> EndsPaired(applied)

\* after the updates 0, 1, 0 (or 1, 0, 1) the last two legs differ and the pool
\* is not sane; one more update to the other leg makes it sane again
C1_Witness ==
    /\ Len(applied) = 4
    /\ applied[2] # applied[1]
    /\ applied[3] # applied[2]
    /\ applied[4] # applied[3]
    /\ pool_prices[0].sanity

\* C3: for every reachable PoolPrice and every update event, applying the
\* event twice in a row gives the PoolPrice that applying it once gives.
C3_UpdateIdempotent ==
    \A tkn \in {0, 1}, amount \in Amounts :
        LET once == UpdatePoolPrice(pools[0], pool_prices[0], tkn, Payload(amount))
            twice == UpdatePoolPrice(pools[0], once, tkn, Payload(amount))
        IN  twice = once

\* C17: an event whose payload does not decode leaves the PoolPrice of its
\* pool as it was: both reserves, both updated-flags and the sanity flag.
C17_MalformedLeavesPoolPrice ==
    \A tkn \in {0, 1} :
        UpdatePoolPrice(pools[0], pool_prices[0], tkn, Malformed) = pool_prices[0]

(***************************************************************************)
(* The enumerator as a state machine on a drawn configuration.             *)
(***************************************************************************)
\* the currencies of the drawn configurations: the base currency, X and Y
Currencies == {0, 1, 2}

\* a pool of a drawn configuration binds two distinct currencies
PoolShapes ==
    {SwapPool(c0, c1, FALSE) : c0 \in Currencies, c1 \in Currencies} \
        {SwapPool(c, c, FALSE) : c \in Currencies}

PoolConfigs == UNION {[0 .. n - 1 -> PoolShapes] : n \in 0 .. MaxPools}

CyclesInit ==
    /\ PriceInit
    /\ FeedInit
    /\ RunInit
    /\ ConfigInit /\ PrinterInit /\ ParkedTools
    /\ cc_start = 0
    /\ cc_max \in 0 .. MaxCycleLen
    /\ cc_pools \in PoolConfigs
    /\ cc_i = 1
    /\ cc_tmp = InitialTmp(cc_start, cc_pools)
    /\ cc_results = <<>>

CycleStep ==
    /\ cc_i < cc_max
    /\ cc_tmp' = OpenAll(cc_start, cc_pools, cc_tmp, 1)
    /\ cc_results' = cc_results \o ClosedAll(cc_start, cc_pools, cc_tmp, 1)
    /\ cc_i' = cc_i + 1
    /\ UNCHANGED <<cc_start, cc_max, cc_pools>>
    /\ UNCHANGED <<priceVars, feedVars, runVars, cfgVars, amm, stable>>

CyclesNext == CycleStep

SpecCycles == CyclesInit /\ [][CyclesNext]_vars

CyclesDone == cc_i >= cc_max

(***************************************************************************)
(* The enumerator on pools that differ in kind and in needs_approve.       *)
(***************************************************************************)
\* Config::read_from_file and the start of construct_cycles: three pools
\* drawn from Swap pools with and without needs_approve and Raydium pools
ApprovalInit ==
    /\ PriceInit
    /\ FeedInit
    /\ RunInit
    /\ ConfigInit /\ PrinterInit /\ ParkedTools
    /\ cc_start = config.start_currency
    /\ cc_max = config.max_cycle_length
    /\ cc_pools \in [{0, 1, 2} -> ExecShapes]
    /\ cc_i = 1
    /\ cc_tmp = InitialTmp(cc_start, cc_pools)
    /\ cc_results = <<>>

SpecApproval == ApprovalInit /\ [][CyclesNext]_vars

\* C21: for every cycle construct_cycles returns, needs_approval is true iff
\* Pool::needs_approval is true for at least one pool on the path of the
\* cycle.
C21_ApprovalIsOrOfPath ==
    \A k \in 1 .. Len(cc_results) :
        cc_results[k].needs_approval
            <=> \E j \in 1 .. Len(cc_results[k].path) :
                    needs_approval(cc_pools[cc_results[k].path[j][1]])

\* a returned cycle whose first pool alone needs approval, and a returned
\* cycle none of whose pools does
C21_Witness ==
    /\ \E k \in 1 .. Len(cc_results) :
           /\ cc_results[k].needs_approval
           /\ \A j \in 1 .. Len(cc_results[k].path) :
                  needs_approval(cc_pools[cc_results[k].path[j][1]]) <=> j = 1
    /\ \E k \in 1 .. Len(cc_results) : ~cc_results[k].needs_approval

(***************************************************************************)
(* Reference definitions for the enumerator's claims: walks described by   *)
(* what they are, not by how construct_cycles finds them.                  *)
(***************************************************************************)
LegSet(ps) == (DOMAIN ps) \X {0, 1}

\* the one-leg extensions of the walks of frontier that chain and repeat no pool
LongerWalks(ps, frontier) ==
    UNION {{Append(w, leg) :
                leg \in {l \in LegSet(ps) :
                            /\ l[1] \notin PathPools(w)
                            /\ LegIn(ps, l) = LegOut(ps, w[Len(w)])}} :
            w \in frontier}

RECURSIVE GrowWalks(_, _, _, _)
GrowWalks(ps, frontier, found, n) ==
    IF n <= 0 THEN found
    ELSE GrowWalks(ps, LongerWalks(ps, frontier), found \cup frontier, n - 1)

\* all sequences of 1 .. n legs that start with input currency start, chain
\* and repeat no pool
Walks(start, ps, n) ==
    GrowWalks(ps, {<<leg>> : leg \in {l \in LegSet(ps) : LegIn(ps, l) = start}}, {}, n)

Chains(ps, w) ==
    \A k \in 1 .. Len(w) - 1 : LegOut(ps, w[k]) = LegIn(ps, w[k + 1])

NoRepeat(w) == \A j, k \in 1 .. Len(w) : j # k => w[j][1] # w[k][1]

\* a closed walk: starts at start, chains, ends at start, repeats no pool
ClosedWalk(start, ps, w) ==
    /\ Len(w) >= 1
    /\ LegIn(ps, w[1]) = start
    /\ Chains(ps, w)
    /\ LegOut(ps, w[Len(w)]) = start
    /\ NoRepeat(w)

\* the walk comes back to start before its last leg
ReturnsEarly(start, ps, w) ==
    \E k \in 1 .. Len(w) - 1 : LegOut(ps, w[k]) = start

ReturnedPaths == {cc_results[k].path : k \in 1 .. Len(cc_results)}

\* C5: every cycle returned by construct_cycles has at most max_cycle_length
\* legs, repeats no pool, chains its legs, and starts and ends at the base
\* currency.
C5_CyclesWellFormed ==
    CyclesDone =>
        \A k \in 1 .. Len(cc_results) :
            LET w == cc_results[k].path
            IN  /\ Len(w) <= cc_max
                /\ ClosedWalk(cc_start, cc_pools, w)

\* a three-leg cycle through X and Y has been returned
C5_Witness ==
    /\ CyclesDone
    /\ \E k \in 1 .. Len(cc_results) :
          /\ Len(cc_results[k].path) = 3
          /\ cc_max = 3

\* C6 as claimed: every closed walk of at most max_cycle_length legs is returned.
C6_AllClosedWalksReturned ==
    CyclesDone =>
        {w \in Walks(cc_start, cc_pools, cc_max) : ClosedWalk(cc_start, cc_pools, w)}
            \subseteq ReturnedPaths

\* C6, amended: every closed walk of 2 .. max_cycle_length legs that does not
\* come back to the base currency before its last leg is returned.
C6_FirstReturnWalksReturned ==
    CyclesDone =>
        {w \in Walks(cc_start, cc_pools, cc_max) :
            /\ Len(w) >= 2
            /\ ClosedWalk(cc_start, cc_pools, w)
            /\ ~ReturnsEarly(cc_start, cc_pools, w)} \subseteq ReturnedPaths

\* a configuration with a four-leg closed walk that runs through the base
\* currency, and with returned two- and three-leg cycles
C6_Witness ==
    /\ CyclesDone
    /\ cc_max = 4
    /\ \E w \in Walks(cc_start, cc_pools, cc_max) :
          /\ Len(w) = 4
          /\ ClosedWalk(cc_start, cc_pools, w)
          /\ ReturnsEarly(cc_start, cc_pools, w)
    /\ \E k \in 1 .. Len(cc_results) : Len(cc_results[k].path) = 2

\* C31: at every step of construct_cycles, no returned cycle has a proper
\* prefix that comes back to the base currency, every returned cycle has at
\* least two legs, and no path appears twice in the returned list.
C31_EmittedAtFirstReturn ==
    /\ \A k \in 1 .. Len(cc_results) :
          /\ Len(cc_results[k].path) >= 2
          /\ ~ReturnsEarly(cc_start, cc_pools, cc_results[k].path)
    /\ \A j, k \in 1 .. Len(cc_results) :
          j # k => cc_results[j].path # cc_results[k].path

\* the enumerator has finished with four-leg paths allowed, it returned a
\* two-leg cycle and a three-leg cycle, and a leg of an unused pool leaves the
\* base currency where the two-leg cycle ends
C31_Witness ==
    /\ CyclesDone
    /\ cc_max = 4
    /\ \E k \in 1 .. Len(cc_results) : Len(cc_results[k].path) = 3
    /\ \E k \in 1 .. Len(cc_results) :
          /\ Len(cc_results[k].path) = 2
          /\ \E leg \in LegSet(cc_pools) : Extends(cc_pools, cc_results[k], leg)

(***************************************************************************)
(* Invariants of the state Printer::run keeps between its steps.           *)
(***************************************************************************)
\* C32: in every reachable state of Printer::run, for every swap pool, sanity
\* is true iff both updated-flags are false, and the two updated-flags are
\* never both true.
C32_SaneIffNoFlag ==
    \A p \in SwapPoolIds :
        /\ pool_prices[p].sanity <=> pool_prices[p].token_updated = <<FALSE, FALSE>>
        /\ pool_prices[p].token_updated # <<TRUE, TRUE>>

\* pool 0 has had both legs of a change applied and is sane again with no flag
\* set, pool 1 has had leg 0 alone applied and is not sane with flag 0 set
C32_Witness ==
    /\ price_slot[0] = <<1, 1>>
    /\ pool_prices[0].sanity /\ pool_prices[0].token_updated = <<FALSE, FALSE>>
    /\ price_slot[1] = <<1, 0>>
    /\ ~pool_prices[1].sanity /\ pool_prices[1].token_updated = <<TRUE, FALSE>>

\* C33: in every reachable state of Printer::run every cycle's cooldown is
\* between 0 and config.cooldown; the decrement, taken on the integers here,
\* never takes a cooldown below 0.
C33_CooldownInRange ==
    \A i \in CycleIds : cycle_cooldown[i] \in 0 .. config.cooldown

\* an evaluation pass is about to run its second loop over a cycle whose bit
\* is clear and whose cooldown has been counted down to 0, and over a cycle
\* that is in its cooldown
C33_Witness ==
    /\ pc = "drain" /\ chan = <<>> /\ cng
    /\ \E i \in CycleIds : ~cycle_needs_update[i] /\ cycle_cooldown[i] = 0
    /\ \E i \in CycleIds :
          ~cycle_needs_update[i] /\ cycle_cooldown[i] \in 1 .. config.cooldown - 1

(***************************************************************************)
(* Printer::run on a wallet of any balance.                                *)
(***************************************************************************)
\* the balances Printer::init may read: one whose maximum trade size is below
\* config.minimum_money, one whose maximum is below the solver's optimum, and
\* the balance of the other specifications
Balances == {1, 40, get_current_balance}

WalletInit ==
    /\ PriceInit /\ ParkedCycles /\ FeedInit /\ RunInit /\ ConfigInit
    /\ money \in Balances
    /\ ParkedTools

SpecWallet == WalletInit /\ [][IdleNext]_vars

\* C34: every call of execute_path made by Printer::run has a size s with
\* config.minimum_money <= s <= floor(safety_percentage * the balance read in
\* Printer::init).
C34_RequestSizeInRange ==
    \A k \in 1 .. Len(executed) :
        /\ executed[k].gamble_money >= config.minimum_money
        /\ executed[k].gamble_money <= get_gamble_money

\* one pass has called execute_path from the cooldown branch at a size the
\* solver found below the maximum and at a size it cut down to the maximum
C34_Witness ==
    /\ \E k \in 1 .. Len(executed) :
          /\ executed[k].branch = "cooldown"
          /\ executed[k].gamble_money < get_gamble_money
    /\ \E k \in 1 .. Len(executed) :
          /\ executed[k].gamble_money = get_gamble_money
          /\ GambleMoneyOptimum(config.greed, CyclePath(executed[k].cycle), pool_prices)
                 > get_gamble_money

\* C35: no update is lost.  Printer::run gets to the blocking receive
\* only through an evaluation pass on an empty channel; the pass takes every
\* cycle whose bit is set through the recompute branch, which leaves the
\* solver's size for the cached prices in cycle_money and the bit clear; so no
\* bit is set while run is blocked on the receive.
C35_NoUpdateLost ==
    /\ [](pc = "recv" => \A i \in CycleIds : ~cycle_needs_update[i])
    /\ [][pc # "recv" /\ pc' = "recv" =>
            /\ pc = "drain" /\ chan = <<>>
            /\ \A i \in CycleIds :
                  cycle_needs_update[i] =>
                      /\ cng
                      /\ EvalCycle(i).branch = "recompute"
                      /\ cycle_money'[i] = get_best_gamble_money(CyclePath(i), pool_prices)
                      /\ ~cycle_needs_update'[i]]_vars

\* run is blocked on the receive after a pass that was not its first and that
\* followed an event for a pool on a cycle: the bit the event set is clear and
\* the size cached for the cycle is the solver's for the cached prices
C35_Witness ==
    /\ pc = "recv" /\ chan = <<>>
    /\ last_event # <<>>
    /\ \E i \in CycleIds :
          /\ pool_update(last_event[1].pool)[i]
          /\ since_exec[i] >= 1
          /\ ~cycle_needs_update[i]
          /\ cycle_money[i] = get_best_gamble_money(CyclePath(i), pool_prices)

(***************************************************************************)
(* Printer::run on a feed that never falls silent: besides the trades, the *)
(* reserve accounts keep changing in fields other than the token amount,   *)
(* and every such change is notified like any other.                       *)
(***************************************************************************)
\* the subscription task of reserve account tkn of pool p: client_sub.next( )
\* yields the account after a change that left its token amount as it was;
\* the change comes while run is blocked on the receive
Resend(p, tkn) ==
    /\ stream[p][tkn] = "open"
    /\ notified[p][tkn + 1] = chain[p]
    /\ pc = "recv" /\ chan = <<>>
    /\ chan' = Append(chan, [pool |-> p, tkn |-> tkn, context |-> notified[p][tkn + 1],
                             result |-> Payload(ChainReserve(p, tkn, notified[p][tkn + 1]))])
    /\ UNCHANGED <<chain, notified, stream>>
    /\ UNCHANGED <<ccVars, priceVars, runVars, cfgVars, amm, stable>>

\* the accounts that keep changing: the reserves of the pools on no cycle
Resends == \E p \in IdlePools \ TradedPools, tkn \in {0, 1} : Resend(p, tkn)

DecayNext ==
    \/ \E p \in IdlePools : ChainChange(p)
    \/ \E p \in IdlePools, tkn \in {0, 1} : Notify(p, tkn)
    \/ Resends
    \/ DrainEvent
    \/ RecvEvent
    \/ EvalPass

\* the thread of run is never starved and the feed never falls silent
SpecDecay ==
    Init /\ [][DecayNext]_vars /\ WF_<<pc, chan>>(RunMoves) /\ WF_vars(Resends)

\* C36: if the feed keeps delivering events for ever, no cycle is left with a
\* cooldown above 0 for ever (in every behaviour the cached sizes and gains
\* change finitely often, the trades being finitely many).
C36_CooldownDecays ==
    []<>(chan # <<>>) => \A i \in CycleIds : []<>(cycle_cooldown[i] = 0)

\* C37: no step of Printer::run changes Printer.money, and so none changes
\* the maximum trade size get_gamble_money: not the handling of a feed event,
\* not an evaluation pass, not a call of execute_path, accepted or failed.
C37_MoneyReadOnce ==
    [][money' = money /\ get_gamble_money' = get_gamble_money]_vars

\* a balance other than that of the other specifications was read, an event
\* has been handled, and the last pass made a call of execute_path that
\* send_transaction took and one that it refused
C37_Witness ==
    /\ money # get_current_balance
    /\ get_gamble_money = GambleMoney(money)
    /\ last_event # <<>>
    /\ \E k \in 1 .. Len(executed) : executed[k].result = "Some"
    /\ \E k \in 1 .. Len(executed) : executed[k].result = "None"

(***************************************************************************)
(* AmmInstruction::pack and AmmInstruction::unpack (raydium.rs) on a drawn *)
(* instruction.                                                            *)
(***************************************************************************)
\* a u64 is kept as its four 16-bit limbs, the least significant first; the
\* limbs drawn: zero, one with two different bytes, and the largest
Limbs == {0, 258, 65535}

U64s == [1 .. 4 -> Limbs]

\* u64::to_be_bytes in the place of to_le_bytes: the most significant byte first
to_be_bytes(x) ==
    [k \in 1 .. 8 |-> IF k % 2 = 1 THEN x[(10 - k) \div 2] \div 256
                      ELSE x[(10 - k) \div 2] % 256]

\* u64::to_le_bytes: the eight bytes of x, the least significant first
to_le_bytes(x) ==
    [k \in 1 .. 8 |-> IF k % 2 = 1 THEN x[(k + 1) \div 2] % 256
                      ELSE x[k \div 2] \div 256]

\* u64::from_le_bytes on a slice of eight bytes
from_le_bytes(bytes) == [k \in 1 .. 4 |-> bytes[2 * k - 1] + 256 * bytes[2 * k]]

\* the variants of AmmInstruction without a payload
ReservedVariants ==
    {"ReservedInitialize", "Reserved", "Reserved0", "ReservedDeposit",
     "ReservedWithdraw", "Reserved1", "Reserved2", "Reserved3", "Reserved4",
     "ReservedPreInitialize", "Reserved5"}

SwapBaseIn(amount_in, minimum_amount_out) ==
    [variant |-> "SwapBaseIn", amount_in |-> amount_in,
     minimum_amount_out |-> minimum_amount_out]

SwapBaseOut(max_amount_in, amount_out) ==
    [variant |-> "SwapBaseOut", max_amount_in |-> max_amount_in,
     amount_out |-> amount_out]

AmmInstructions ==
    {SwapBaseIn(a, b) : a \in U64s, b \in U64s}
        \cup {SwapBaseOut(a, b) : a \in U64s, b \in U64s}
        \cup {[variant |-> v] : v \in ReservedVariants}

InvalidInstructionData == [ok |-> FALSE, err |-> "InvalidInstructionData"]

Ok(value) == [ok |-> TRUE, value |-> value]

\* AmmInstruction::pack: the buffer of the Ok it returns
pack(x) ==
    IF x.variant = "SwapBaseIn"
    THEN <<9>> \o to_le_bytes(x.amount_in) \o to_le_bytes(x.minimum_amount_out)
    ELSE IF x.variant = "SwapBaseOut"
    THEN <<11>> \o to_le_bytes(x.max_amount_in) \o to_le_bytes(x.amount_out)
    ELSE <<>>

\* AmmInstruction::unpack_u64: Ok( ( amount, rest ) ) or the error
unpack_u64(input) ==
    IF Len(input) >= 8
    THEN Ok([amount |-> from_le_bytes(SubSeq(input, 1, 8)),
             rest |-> SubSeq(input, 9, Len(input))])
    ELSE InvalidInstructionData

\* the arms 9 and 11 of unpack: two u64 read off rest, each "?" returning the
\* error of unpack_u64
UnpackSwap(rest) ==
    LET first == unpack_u64(rest)
    IN  IF ~first.ok THEN first
        ELSE LET second == unpack_u64(first.value.rest)
             IN  IF ~second.ok THEN second
                 ELSE Ok(<<first.value.amount, second.value.amount>>)

\* AmmInstruction::unpack
unpack(input) ==
    IF input = <<>> THEN InvalidInstructionData
    ELSE IF Head(input) \notin {9, 11} THEN InvalidInstructionData
    ELSE LET fields == UnpackSwap(Tail(input))
         IN  IF ~fields.ok THEN fields
             ELSE IF Head(input) = 9
             THEN Ok(SwapBaseIn(fields.value[1], fields.value[2]))
             ELSE Ok(SwapBaseOut(fields.value[1], fields.value[2]))

\* an instruction x has been made;  nothing has been packed yet
PackInit ==
    /\ PriceInit /\ ParkedCycles /\ FeedInit /\ RunInit /\ ConfigInit /\ PrinterInit
    /\ stable = <<>>
    /\ \E x \in AmmInstructions : amm = [x |-> x, packed |-> <<>>, unpacked |-> <<>>]

\* "x.pack( )"
Pack ==
    /\ amm.packed = <<>>
    /\ amm' = [amm EXCEPT !.packed = <<pack(amm.x)>>]
    /\ UNCHANGED <<ccVars, priceVars, feedVars, runVars, cfgVars, stable>>

\* "AmmInstruction::unpack( &buf )" on the buffer pack returned
Unpack ==
    /\ amm.packed # <<>>
    /\ amm.unpacked = <<>>
    /\ amm' = [amm EXCEPT !.unpacked = <<unpack(amm.packed[1])>>]
    /\ UNCHANGED <<ccVars, priceVars, feedVars, runVars, cfgVars, stable>>

PackNext == Pack \/ Unpack

SpecPack == PackInit /\ [][PackNext]_vars

\* C38: unpack of the buffer pack made of x returns x for every SwapBaseIn
\* and SwapBaseOut x, whose buffers hold the tag 9 or 11 and sixteen bytes,
\* and rejects the buffer of every other variant with InvalidInstructionData.
C38_UnpackInvertsPack ==
    amm.unpacked # <<>> =>
        IF amm.x.variant \in {"SwapBaseIn", "SwapBaseOut"}
        THEN /\ amm.unpacked[1] = Ok(amm.x)
             /\ Len(amm.packed[1]) = 17
             /\ amm.packed[1][1] = (IF amm.x.variant = "SwapBaseIn" THEN 9 ELSE 11)
        ELSE amm.unpacked[1] = InvalidInstructionData

\* a SwapBaseOut whose max_amount_in is 258 + 65535 * 2^48 and whose amount_out
\* is 2^64 - 1 has been packed, with the bytes 2, 1 after the tag and 255, 255
\* before the second field, and unpacked
C38_Witness ==
    /\ amm.unpacked # <<>>
    /\ amm.x = SwapBaseOut(<<258, 0, 0, 65535>>, <<65535, 65535, 65535, 65535>>)
    /\ SubSeq(amm.packed[1], 1, 3) = <<11, 2, 1>>
    /\ SubSeq(amm.packed[1], 8, 10) = <<255, 255, 255>>

(***************************************************************************)
(* StablePrinter (stable.rs): init, and the part of an iteration of run     *)
(* that reads the wallet and picks the currency held.                      *)
(***************************************************************************)
\* what comm.get_current_balance_for_currency may return for a currency
StableBalances == {0, 1, 2}

\* the wallets of a configuration with n currencies, one balance a currency
Wallet(n) == [0 .. n - 1 -> StableBalances]

\* the loop "for c in &self.currencies" of recompute_balance from currency i
\* on, with max_money and argmax as they stand
RECURSIVE ArgMaxFrom(_, _, _, _, _)
ArgMaxFrom(n, balance, i, max_money, argmax) ==
    IF i >= n THEN [current_currency |-> argmax, money |-> max_money]
    ELSE IF balance[i] > max_money
    THEN ArgMaxFrom(n, balance, i + 1, balance[i], i)
    ELSE ArgMaxFrom(n, balance, i + 1, max_money, argmax)

\* StablePrinter::recompute_balance for n currencies and num_pools pools: the
\* values it leaves in current_currency and money
recompute_balance(n, num_pools, balance) == ArgMaxFrom(n, balance, 0, 0, num_pools + 1)

\* the StablePrinter after a call of recompute_balance that read balance
StablePrinter(n, num_pools, balance, at) ==
    [currencies |-> n, pools |-> num_pools, balance |-> balance,
     current_currency |-> recompute_balance(n, num_pools, balance).current_currency,
     money |-> recompute_balance(n, num_pools, balance).money,
     pc |-> at]

\* StablePrinter::init on a configuration of one to three currencies and up
\* to MaxPools pools
StableInit ==
    /\ PriceInit /\ ParkedCycles /\ FeedInit /\ RunInit /\ ConfigInit /\ PrinterInit
    /\ amm = <<>>
    /\ \E n \in 1 .. Cardinality(Currencies), num_pools \in 0 .. MaxPools :
       \E balance \in Wallet(n) :
           stable = StablePrinter(n, num_pools, balance, "loop")

\* run: "self.recompute_balance( comm );" on the wallet as it is by then
RecomputeBalance ==
    /\ stable.pc = "loop"
    /\ \E balance \in Wallet(stable.currencies) :
           stable' = StablePrinter(stable.currencies, stable.pools, balance, "index")
    /\ UNCHANGED <<ccVars, priceVars, feedVars, runVars, cfgVars, amm>>

\* run: "let curr_a = &self.currencies[ self.current_currency ];" and the
\* rest of the iteration;  an index out of bounds panics
IndexCurrency ==
    /\ stable.pc = "index"
    /\ stable' = [stable EXCEPT !.pc = IF stable.current_currency < stable.currencies
                                       THEN "loop" ELSE "panicked"]
    /\ UNCHANGED <<ccVars, priceVars, feedVars, runVars, cfgVars, amm>>

StableNext == RecomputeBalance \/ IndexCurrency

SpecStable == StableInit /\ [][StableNext]_vars

\* C39: after every recompute_balance current_currency is an index into the
\* currency list, whatever the balances, and run never indexes the list out
\* of bounds.
C39_CurrentCurrencyValid ==
    /\ stable.current_currency \in 0 .. stable.currencies - 1
    /\ stable.pc # "panicked"

=============================================================================
